---- MODULE Spec2Model ----
(***************************************************************************)
(* Model of the safe submodule updater (scripts/safe-update.js), the       *)
(* production quality gates (scripts/quality-gates.js) and the helpers of  *)
(* scripts/utils.js they rest on.                                          *)
(*                                                                         *)
(* Strings are sequences of one-character strings, so that the regular     *)
(* expressions and parseInt of the version classifier are computed and not *)
(* assumed.  JavaScript null is the value Null.                            *)
(***************************************************************************)
EXTENDS Integers, Sequences, FiniteSets, TLC

VARIABLES
    describeOut,     \* classifier: stdout of `git describe --tags --abbrev=0`, or Null
    targetVersion,   \* classifier: the requested target version
    classified,      \* classifier: what determineUpdateType returned ("none" before the call)
    evaluation,      \* gates: the evaluation object of evaluateServiceGates
    evalPc,          \* gates: the statement of evaluateServiceGates reached
    gateRun,         \* gates: one gate evaluator's run: the gate, what its checks found, the gate object
    subHead,         \* updater: HEAD commit of each submodule
    parentLog,       \* updater: the parent repository's commits, HEAD last
    rollbackStack,   \* updater: this.rollbackStack
    ctx,             \* updater: the updateContext object of each call slot
    pc,              \* updater: where each call slot stands
    entry,           \* updater: "updateSubmodule" or "direct" (a method called by itself)
    attempt,         \* updater: arguments and surroundings of the slot's call
    error,           \* updater: message of the error the slot's call threw, or "none"
    effects,         \* updater: what the slot's call has done to the repositories
    restored,        \* updater: a rollbackUpdate on the slot's context has succeeded
    calls,           \* updater: number of calls made so far
    logged,          \* updater: what the catch block of the slot's call has logged
    batch            \* updater: the batchUpdate call (its arguments, locals and outcome)

classifyVars == <<describeOut, targetVersion, classified>>

gateVars == <<evaluation, evalPc, gateRun>>

updVars == <<subHead, parentLog, rollbackStack, ctx, pc, entry, attempt, error,
             effects, restored, calls, logged, batch>>

vars == <<describeOut, targetVersion, classified, evaluation, evalPc, gateRun,
          subHead, parentLog, rollbackStack, ctx, pc, entry, attempt, error,
          effects, restored, calls, logged, batch>>

----------------------------------------------------------------------------
(* JavaScript values *)

Null == <<"<null>">>

NL == "\n"

Whitespace == {" ", NL, "\t"}

Digits == {"0", "1", "2", "3", "4", "5", "6", "7", "8", "9"}

DigitValue(ch) ==
    CASE ch = "0" -> 0 [] ch = "1" -> 1 [] ch = "2" -> 2 [] ch = "3" -> 3
      [] ch = "4" -> 4 [] ch = "5" -> 5 [] ch = "6" -> 6 [] ch = "7" -> 7
      [] ch = "8" -> 8 [] ch = "9" -> 9

(* String.prototype.trim: leading and trailing white space removed. *)
RECURSIVE TrimLeft(_)
TrimLeft(s) ==
    IF Len(s) > 0 /\ s[1] \in Whitespace THEN TrimLeft(Tail(s)) ELSE s

RECURSIVE TrimRight(_)
TrimRight(s) ==
    IF Len(s) > 0 /\ s[Len(s)] \in Whitespace
    THEN TrimRight(SubSeq(s, 1, Len(s) - 1))
    ELSE s

Trim(s) == TrimRight(TrimLeft(s))

(* JavaScript truthiness of a string-or-null: null and "" are falsy. *)
Truthy(v) == v # Null /\ v # <<>>

(* parseInt of a string of decimal digits. *)
RECURSIVE ParseInt(_)
ParseInt(ds) ==
    IF Len(ds) = 0 THEN 0
    ELSE 10 * ParseInt(SubSeq(ds, 1, Len(ds) - 1)) + DigitValue(ds[Len(ds)])

----------------------------------------------------------------------------
(* utils.js *)

(* execQuiet: the command's stdout when it exits 0, null when it fails. *)
execQuiet(exitsZero, stdout) == IF exitsZero THEN stdout ELSE Null

----------------------------------------------------------------------------
(* The version classifier of SafeSubmoduleUpdater *)

(* The index after the longest run of digits of s that starts at i. *)
RECURSIVE DigitsEnd(_, _)
DigitsEnd(s, i) ==
    IF i <= Len(s) /\ s[i] \in Digits THEN DigitsEnd(s, i + 1) ELSE i

(* The match of /^v?(\d+)\.(\d+)\.(\d+)/ on s: Null, or its three groups. *)
SemverMatch(s) ==
    LET a0 == IF Len(s) >= 1 /\ s[1] = "v" THEN 2 ELSE 1
        a1 == DigitsEnd(s, a0)
        b0 == a1 + 1
        b1 == DigitsEnd(s, b0)
        c0 == b1 + 1
        c1 == DigitsEnd(s, c0)
    IN  IF /\ a1 > a0
           /\ a1 <= Len(s) /\ s[a1] = "."
           /\ b1 > b0
           /\ b1 <= Len(s) /\ s[b1] = "."
           /\ c1 > c0
        THEN <<SubSeq(s, a0, a1 - 1), SubSeq(s, b0, b1 - 1), SubSeq(s, c0, c1 - 1)>>
        ELSE Null

isSemanticVersion(version) == SemverMatch(version) # Null

(* parseSemanticVersion: the parsed triple; threw is set when there is no
   match (the function throws 'Invalid semantic version'). *)
parseSemanticVersion(version) ==
    LET match == SemverMatch(version)
    IN  IF match = Null
        THEN [threw |-> TRUE, major |-> 0, minor |-> 0, patch |-> 0]
        ELSE [threw |-> FALSE,
              major |-> ParseInt(match[1]),
              minor |-> ParseInt(match[2]),
              patch |-> ParseInt(match[3])]

(* getCurrentVersion: execQuiet(...).trim(); the TypeError of null.trim() is
   caught and null returned. *)
getCurrentVersion(out) == IF out = Null THEN Null ELSE Trim(out)

(* CompareVersions with >= for > on the major component. *)
CompareVersions_MajorGeq(current, target) ==
    IF target.major >= current.major THEN "major"
    ELSE IF target.minor > current.minor THEN "minor"
    ELSE "patch"

(* The comparison of determineUpdateType, lines 115-119. *)
CompareVersions(current, target) ==
    IF target.major > current.major THEN "major"
    ELSE IF target.minor > current.minor THEN "minor"
    ELSE IF target.patch > current.patch THEN "patch"
    ELSE "patch"

(* determineUpdateType falling back to 'patch' instead of 'major'. *)
determineUpdateType_PatchFallback(out, target) ==
    LET currentVersion == getCurrentVersion(out)
    IN  IF \/ ~Truthy(currentVersion)
           \/ ~isSemanticVersion(currentVersion)
           \/ ~isSemanticVersion(target)
        THEN "patch"
        ELSE CompareVersions(parseSemanticVersion(currentVersion),
                             parseSemanticVersion(target))

(* determineUpdateType: never throws (the catch returns 'major'). *)
determineUpdateType(out, target) ==
    LET currentVersion == getCurrentVersion(out)
    IN  IF \/ ~Truthy(currentVersion)
           \/ ~isSemanticVersion(currentVersion)
           \/ ~isSemanticVersion(target)
        THEN "major"
        ELSE LET cur == parseSemanticVersion(currentVersion)
                 tgt == parseSemanticVersion(target)
             IN  IF cur.threw \/ tgt.threw THEN "major"
                 ELSE CompareVersions(cur, tgt)

----------------------------------------------------------------------------
(* Version strings the classifier is exercised on *)

S_1_0_0    == <<"1", ".", "0", ".", "0">>
S_v1_0_0   == <<"v", "1", ".", "0", ".", "0">>
S_1_2_3    == <<"1", ".", "2", ".", "3">>
S_v1_2_3   == <<"v", "1", ".", "2", ".", "3">>
S_v1_2_4   == <<"v", "1", ".", "2", ".", "4">>
S_1_3_0    == <<"1", ".", "3", ".", "0">>
S_1_5_0    == <<"1", ".", "5", ".", "0">>
S_1_9_9    == <<"1", ".", "9", ".", "9">>
S_1_10_0   == <<"1", ".", "1", "0", ".", "0">>
S_2_0_0    == <<"2", ".", "0", ".", "0">>
S_v2_0_0   == <<"v", "2", ".", "0", ".", "0">>
S_2_0_0_rc == <<"2", ".", "0", ".", "0", "-", "r", "c">>
S_HEAD     == <<"H", "E", "A", "D">>
S_latest   == <<"l", "a", "t", "e", "s", "t">>
S_v1_2     == <<"v", "1", ".", "2">>
S_vv1_0_0  == <<"v", "v", "1", ".", "0", ".", "0">>
S_empty    == <<>>

SemverSamples ==
    {S_1_0_0, S_v1_0_0, S_1_2_3, S_v1_2_3, S_v1_2_4, S_1_3_0, S_1_5_0,
     S_1_9_9, S_1_10_0, S_2_0_0, S_v2_0_0, S_2_0_0_rc}

NonSemverSamples == {S_HEAD, S_latest, S_v1_2, S_vv1_0_0, S_empty}

VersionSamples == SemverSamples \cup NonSemverSamples

(* What `git describe` can print: a tag name and a newline; it fails (null)
   when the module has no tag. *)
DescribeOutputs == {Null} \cup {v \o <<NL>> : v \in VersionSamples \ {S_empty}}

----------------------------------------------------------------------------
(* The score aggregation of ProductionQualityGates *)

(* Scores are exact rationals.  A gate score is kept in sevenths of a point
   (the security and deployment gates divide by seven), so Points(100) is the
   score 100; an overall score is a fraction num/den of points. *)
Points(n) == 7 * n

Fraction(n, d) == [num |-> n, den |-> d]

FracLess(f, n) == f.num < n * f.den

(* a table in which the Performance gate carries most of the weight *)
gates_HeavyPerformance ==
    << [name |-> "Security Gate",    weight |-> 5,  critical |-> TRUE],
       [name |-> "Stability Gate",   weight |-> 5,  critical |-> TRUE],
       [name |-> "Performance Gate", weight |-> 80, critical |-> FALSE],
       [name |-> "Contract Gate",    weight |-> 5,  critical |-> TRUE],
       [name |-> "Deployment Gate",  weight |-> 5,  critical |-> TRUE] >>

(* this.gates of the constructor *)
gates ==
    << [name |-> "Security Gate",    weight |-> 25, critical |-> TRUE],
       [name |-> "Stability Gate",   weight |-> 20, critical |-> TRUE],
       [name |-> "Performance Gate", weight |-> 15, critical |-> FALSE],
       [name |-> "Contract Gate",    weight |-> 20, critical |-> TRUE],
       [name |-> "Deployment Gate",  weight |-> 20, critical |-> TRUE] >>

minimumScore == 80

(* gate.name.toLowerCase().replace(' gate', '') *)
GateKey(name) ==
    CASE name = "Security Gate"    -> "security"
      [] name = "Stability Gate"   -> "stability"
      [] name = "Performance Gate" -> "performance"
      [] name = "Contract Gate"    -> "contract"
      [] name = "Deployment Gate"  -> "deployment"

GateKeys == {"security", "stability", "performance", "contract", "deployment"}

(* The loop of calculateOverallScore over the first n gates of the table:
   totalScore (times 700, to stay in integers) and totalWeight. *)
RECURSIVE ScoreLoop(_, _, _)
ScoreLoop(table, gateResults, n) ==
    IF n = 0 THEN [totalScore |-> 0, totalWeight |-> 0]
    ELSE LET acc  == ScoreLoop(table, gateResults, n - 1)
             gate == table[n]
             key  == GateKey(gate.name)
         IN  IF key \in DOMAIN gateResults
             THEN [totalScore  |-> acc.totalScore + gateResults[key].score * gate.weight,
                   totalWeight |-> acc.totalWeight + gate.weight]
             ELSE acc

(* calculateOverallScore with missing gates weighing in with a score of 0. *)
calculateOverallScore_MissingAsZero(table, gateResults) ==
    LET acc == ScoreLoop(table, gateResults, Len(table))
        all == ScoreLoop(table, [k \in GateKeys |-> [score |-> 0]], Len(table))
    IN  Fraction(acc.totalScore, 7 * all.totalWeight)

(* calculateOverallScore: (totalScore / totalWeight) * 100, 0 without weight *)
calculateOverallScore(table, gateResults) ==
    LET acc == ScoreLoop(table, gateResults, Len(table))
    IN  IF acc.totalWeight > 0
        THEN Fraction(acc.totalScore, 7 * acc.totalWeight)
        ELSE Fraction(0, 1)

(* canServiceDeploy passing over a critical gate that has no result. *)
canServiceDeploy_SkipMissing(table, ev) ==
    /\ ~FracLess(ev.overallScore, minimumScore)
    /\ \A i \in 1..Len(table) :
          (table[i].critical /\ GateKey(table[i].name) \in DOMAIN ev.gateResults) =>
              ev.gateResults[GateKey(table[i].name)].passed

(* canServiceDeploy looking at the overall score alone. *)
canServiceDeploy_ScoreOnly(table, ev) ==
    ~FracLess(ev.overallScore, minimumScore)

(* canServiceDeploy *)
canServiceDeploy(table, ev) ==
    /\ ~FracLess(ev.overallScore, minimumScore)
    /\ \A i \in 1..Len(table) :
          table[i].critical =>
              /\ GateKey(table[i].name) \in DOMAIN ev.gateResults
              /\ ev.gateResults[GateKey(table[i].name)].passed

----------------------------------------------------------------------------
(* ContractValidator (scripts/contract-validator.js) *)

Min(a, b) == IF a < b THEN a ELSE b

Max(a, b) == IF a > b THEN a ELSE b

(* checkBackwardCompatibility.  f.hasPrevious: `git show HEAD~1:<contract>`
   printed something; f.breaking: how many breaking changes
   detectContractChanges lists; f.compatThrows: reading the contract threw. *)
checkBackwardCompatibility(f) ==
    IF ~f.hasPrevious THEN [score |-> 90, breakingChanges |-> 0]
    ELSE IF f.compatThrows THEN [score |-> 70, breakingChanges |-> 1]
    ELSE [score |-> Max(0, 100 - f.breaking * 20), breakingChanges |-> f.breaking]

(* validateServiceContract; breakingChanges is the length of the list.
   version: "null" (never extracted), "unknown" or "found". *)
validateServiceContract(f) ==
    IF ~f.hasContractFile
    THEN [hasContract |-> FALSE, isValid |-> FALSE, compatibilityScore |-> 0,
          breakingChanges |-> 0, version |-> "null"]
    ELSE LET compat == checkBackwardCompatibility(f)
         IN  [hasContract |-> TRUE, isValid |-> f.syntaxValid,
              compatibilityScore |-> compat.score,
              breakingChanges |-> compat.breakingChanges,
              version |-> IF f.versionFound THEN "found" ELSE "unknown"]

----------------------------------------------------------------------------
(* The gate evaluators of ProductionQualityGates.  Each takes the facts its
   checks read and returns the gate object; `threw` says that a check threw
   and the catch block pushed the evaluation-failed issue. *)

criticalGateThreshold == 90

performanceThreshold == 70

CountTrue(bools) == Cardinality({i \in DOMAIN bools : bools[i]})

Gate(score, passed, issues) == [score |-> score, passed |-> passed, issues |-> issues]

(* the four collect...Issues stubs *)
collectSecurityIssues(checks) == <<>>
collectStabilityIssues(checks) == <<>>
collectContractIssues(checks) == <<>>
collectDeploymentIssues(checks) == <<>>

(* evaluateSecurityGate without the cap of the vulnerability penalty *)
evaluateSecurityGate_NoCap(f) ==
    IF f.threw THEN Gate(0, FALSE, <<"Security evaluation failed">>)
    ELSE LET hasSecurityAudit == f.vulnerabilityCount = 0
             baseScore == CountTrue(<<f.hasSecurityPolicy, f.secureGitignore,
                                      f.hasEnvExample, f.noHardcodedSecrets,
                                      hasSecurityAudit, f.httpsEnforced,
                                      f.hasAuth>>) * 100
             score  == Max(0, baseScore - Points(f.vulnerabilityCount * 5))
             passed == score >= Points(criticalGateThreshold)
         IN  Gate(score, passed, IF ~passed THEN collectSecurityIssues(f) ELSE <<>>)

evaluateSecurityGate(f) ==
    IF f.threw THEN Gate(0, FALSE, <<"Security evaluation failed">>)
    ELSE LET hasSecurityAudit == f.vulnerabilityCount = 0
             baseScore == CountTrue(<<f.hasSecurityPolicy, f.secureGitignore,
                                      f.hasEnvExample, f.noHardcodedSecrets,
                                      hasSecurityAudit, f.httpsEnforced,
                                      f.hasAuth>>) * 100
             vulnPenalty == Min(f.vulnerabilityCount * 5, 30)
             score  == Max(0, baseScore - Points(vulnPenalty))
             passed == score >= Points(criticalGateThreshold)
         IN  Gate(score, passed, IF ~passed THEN collectSecurityIssues(f) ELSE <<>>)

(* evaluateStabilityGate adding the test coverage as it is *)
evaluateStabilityGate_NoCoverageCap(f) ==
    IF f.threw THEN Gate(0, FALSE, <<"Stability evaluation failed">>)
    ELSE LET score == (IF f.hasStableTag THEN 20 ELSE 0)
                    + (IF f.hasTests THEN 15 ELSE 0)
                    + f.testCoverage
                    + (IF f.buildPasses THEN 15 ELSE 0)
                    + (IF f.hasErrorHandling THEN 10 ELSE 0)
                    + (IF f.canRollback THEN 10 ELSE 0)
                    + (IF f.hasHealthEndpoint THEN 10 ELSE 0)
             passed == score >= criticalGateThreshold
         IN  Gate(Points(score), passed,
                  IF ~passed THEN collectStabilityIssues(f) ELSE <<>>)

evaluateStabilityGate(f) ==
    IF f.threw THEN Gate(0, FALSE, <<"Stability evaluation failed">>)
    ELSE LET score == (IF f.hasStableTag THEN 20 ELSE 0)
                    + (IF f.hasTests THEN 15 ELSE 0)
                    + Min(f.testCoverage, 20)
                    + (IF f.buildPasses THEN 15 ELSE 0)
                    + (IF f.hasErrorHandling THEN 10 ELSE 0)
                    + (IF f.canRollback THEN 10 ELSE 0)
                    + (IF f.hasHealthEndpoint THEN 10 ELSE 0)
             passed == score >= criticalGateThreshold
         IN  Gate(Points(score), passed,
                  IF ~passed THEN collectStabilityIssues(f) ELSE <<>>)

(* evaluatePerformanceGate without the penalty for the dependency count *)
evaluatePerformanceGate_NoDependencyPenalty(f) ==
    IF f.threw THEN Gate(Points(85), TRUE, <<"Performance evaluation failed">>)
    ELSE LET big   == f.bundleSize > 5000000
             slow  == f.buildTime > 300
             performanceScore == 85 - (IF big THEN 15 ELSE 0)
                                    - (IF slow THEN 10 ELSE 0)
             score == Max(0, performanceScore)
         IN  Gate(Points(score), score >= performanceThreshold,
                  (IF big THEN <<"Large bundle size detected">> ELSE <<>>)
                  \o (IF slow THEN <<"Build time exceeds 5 minutes">> ELSE <<>>))

evaluatePerformanceGate(f) ==
    IF f.threw THEN Gate(Points(85), TRUE, <<"Performance evaluation failed">>)
    ELSE LET big   == f.bundleSize > 5000000
             slow  == f.buildTime > 300
             heavy == f.dependencyCount > 50
             performanceScore == 85 - (IF big THEN 15 ELSE 0)
                                    - (IF slow THEN 10 ELSE 0)
                                    - (IF heavy THEN 5 ELSE 0)
             score == Max(0, performanceScore)
         IN  Gate(Points(score), score >= performanceThreshold,
                  (IF big THEN <<"Large bundle size detected">> ELSE <<>>)
                  \o (IF slow THEN <<"Build time exceeds 5 minutes">> ELSE <<>>)
                  \o (IF heavy THEN <<"High dependency count">> ELSE <<>>))

evaluateContractGate(f) ==
    IF f.threw THEN Gate(0, FALSE, <<"Contract evaluation failed">>)
    ELSE LET contractResult == validateServiceContract(f)
             hasVersion == contractResult.version # "unknown"
             score == (IF contractResult.hasContract THEN 30 ELSE 0)
                    + (IF contractResult.isValid THEN 25 ELSE 0)
                    + Min(contractResult.compatibilityScore, 25)
                    + (IF hasVersion THEN 10 ELSE 0)
                    + (IF contractResult.breakingChanges = 0 THEN 10 ELSE 0)
             passed == score >= criticalGateThreshold
         IN  Gate(Points(score), passed,
                  IF ~passed THEN collectContractIssues(f) ELSE <<>>)

evaluateDeploymentGate(f) ==
    IF f.threw THEN Gate(0, FALSE, <<"Deployment evaluation failed">>)
    ELSE LET score == CountTrue(<<f.hasPackageJson, f.hasBuildScript,
                                  f.hasStartScript, f.hasDeploymentConfig,
                                  f.hasEnvConfig, f.hasHealthCheck,
                                  f.prodReady>>) * 100
             passed == score >= Points(criticalGateThreshold)
         IN  Gate(score, passed, IF ~passed THEN collectDeploymentIssues(f) ELSE <<>>)

(* Object.entries(evaluation.gateResults): the keys in insertion order *)
GateOrder == <<"security", "stability", "performance", "contract", "deployment">>

(* every gate of the table taken as critical *)
IsCritical_Every(table, key) ==
    \E i \in 1..Len(table) : GateKey(table[i].name) = key

IsCritical(table, key) ==
    \E i \in 1..Len(table) : GateKey(table[i].name) = key /\ table[i].critical

(* collectIssues over the first n entries of gateResults *)
RECURSIVE CollectLoop(_, _, _)
CollectLoop(table, gateResults, n) ==
    IF n = 0 THEN [criticalFailures |-> <<>>, warnings |-> <<>>]
    ELSE LET acc == CollectLoop(table, gateResults, n - 1)
             gateKey == GateOrder[n]
         IN  IF gateKey \notin DOMAIN gateResults
                \/ Len(gateResults[gateKey].issues) = 0
             THEN acc
             ELSE IF IsCritical(table, gateKey) /\ ~gateResults[gateKey].passed
             THEN [acc EXCEPT !.criticalFailures = @ \o gateResults[gateKey].issues]
             ELSE [acc EXCEPT !.warnings = @ \o gateResults[gateKey].issues]

collectIssues(table, gateResults) == CollectLoop(table, gateResults, Len(GateOrder))

(* evaluateServiceGates: the five evaluators, the score, the decision, the
   issues.  No statement of its try block throws (each evaluator catches its
   own errors), so its catch block is not modelled. *)
evaluateServiceGates(f) ==
    LET gateResults ==
            [security    |-> evaluateSecurityGate(f.security),
             stability   |-> evaluateStabilityGate(f.stability),
             performance |-> evaluatePerformanceGate(f.performance),
             contract    |-> evaluateContractGate(f.contract),
             deployment  |-> evaluateDeploymentGate(f.deployment)]
        overallScore == calculateOverallScore(gates, gateResults)
        collected == collectIssues(gates, gateResults)
    IN  [gateResults      |-> gateResults,
         overallScore     |-> overallScore,
         canDeploy        |-> canServiceDeploy(gates,
                                 [overallScore |-> overallScore,
                                  gateResults  |-> gateResults]),
         criticalFailures |-> collected.criticalFailures,
         warnings         |-> collected.warnings]

(* validateDeploymentReadiness(servicePath) and generateQualityReport for the
   one service: criticalIssues are the evaluation's criticalFailures. *)
validateDeploymentReadiness(f) ==
    LET result == evaluateServiceGates(f)
    IN  [gateResults    |-> result,
         criticalIssues |-> result.criticalFailures]

----------------------------------------------------------------------------
(* The repositories SafeSubmoduleUpdater works on *)

Modules == {"dashboard"}

(* paths a caller may pass; "missing" is no directory *)
Paths == Modules \cup {"missing"}

existsSync(path) == path \in Modules

DigitChar == <<"0", "1", "2", "3", "4", "5", "6", "7", "8", "9">>

(* commit hashes: of a submodule's n-th commit, of the parent's n-th commit *)
ModuleHash(n) == <<"m", DigitChar[n + 1]>>

ParentHash(n) == <<"p", DigitChar[n + 1]>>

(* Every submodule has an untagged first commit 0 and one commit per tag. *)
TagNames == <<S_v1_0_0, S_v1_2_3, S_v1_2_4, S_1_3_0, S_v2_0_0>>

TagIndex(version) == CHOOSE i \in 1..Len(TagNames) : TagNames[i] = version

(* `git tag -l "<version>" | grep -q "^<version>$"` exits 0 *)
TagExists(version) == \E i \in 1..Len(TagNames) : TagNames[i] = version

(* `git rev-parse <ref>`: the hash and a newline *)
RevParseOut(hash) == hash \o <<NL>>

(* `git describe --tags --abbrev=0` at a commit: its tag, or failure *)
DescribeOutAt(hash) ==
    IF hash = ModuleHash(0) THEN Null
    ELSE LET i == CHOOSE j \in 1..Len(TagNames) : ModuleHash(j) = hash
         IN  execQuiet(TRUE, TagNames[i] \o <<NL>>)

World == [subHead |-> subHead, parentLog |-> parentLog,
          rollbackStack |-> rollbackStack]

ParentHead(W) == W.parentLog[Len(W.parentLog)]

----------------------------------------------------------------------------
(* SafeSubmoduleUpdater: the methods.  Each takes the updateContext, the
   repositories W and what its commands meet, and gives back the context and
   repositories it leaves, the message of the error it threw ("none" when it
   returned) and what it did. *)

(* a strategy table whose minor strategy asks for the compatibility test *)
updateStrategies_MinorCompat ==
    [patch |-> [riskLevel |-> "low", requiresApproval |-> FALSE],
     minor |-> [riskLevel |-> "medium", requiresApproval |-> TRUE,
                requiresCompatibilityTest |-> TRUE],
     major |-> [riskLevel |-> "high", requiresApproval |-> TRUE,
                requiresCompatibilityTest |-> TRUE]]

updateStrategies ==
    [patch |-> [riskLevel |-> "low", requiresApproval |-> FALSE],
     minor |-> [riskLevel |-> "medium", requiresApproval |-> TRUE],
     major |-> [riskLevel |-> "high", requiresApproval |-> TRUE,
                requiresCompatibilityTest |-> TRUE]]

RequiresCompatibilityTest(strategy) ==
    "requiresCompatibilityTest" \in DOMAIN strategy
        /\ strategy.requiresCompatibilityTest

(* the updateContext literal of updateSubmodule: updateType "null" is null,
   rollbackPoint and validation are << >> while null/empty.  It has no
   `approved` property. *)
NewContext(path, version) ==
    [submodule |-> path, targetVersion |-> version, currentCommit |-> Null,
     targetCommit |-> Null, updateType |-> "null", validation |-> <<>>,
     rollbackPoint |-> <<>>]

(* updateContext.approved: the property is never set, so it reads undefined *)
ContextApproved(context) ==
    "approved" \in DOMAIN context /\ context.approved

Returned(context, W, did) ==
    [error |-> "none", context |-> context, world |-> W, did |-> did]

Threw(context, W, did, message) ==
    [error |-> message, context |-> context, world |-> W, did |-> did]

preUpdateValidation(context, W, dirty) ==
    LET submodule == context.submodule
        version   == context.targetVersion
    IN  IF ~existsSync(submodule)
        THEN Threw(context, W, {}, "does not exist")
        ELSE
        LET hasUncommitted == ~Truthy(execQuiet(~dirty, <<>>))
        IN  IF hasUncommitted
            THEN Threw(context, W, {}, "has uncommitted changes")
            ELSE
            LET c1 == [context EXCEPT !.currentCommit =
                         Trim(execQuiet(TRUE, RevParseOut(W.subHead[submodule])))]
                targetExists == Truthy(execQuiet(TagExists(version), <<>>))
            IN  IF ~targetExists
                THEN Threw(c1, W, {}, "target version does not exist")
                ELSE
                LET c2 == [c1 EXCEPT
                        !.targetCommit =
                            Trim(execQuiet(TRUE, RevParseOut(ModuleHash(TagIndex(version))))),
                        !.updateType =
                            determineUpdateType(DescribeOutAt(W.subHead[submodule]),
                                                version)]
                    strategy == updateStrategies[c2.updateType]
                IN  IF strategy.requiresApproval /\ ~ContextApproved(c2)
                    THEN Threw(c2, W, {}, "requires approval")
                    ELSE Returned(c2, W, {})

createRollbackPoint(context, W) ==
    LET rollbackPoint ==
            [submoduleCommit |-> context.currentCommit,
             parentCommit |-> Trim(execQuiet(TRUE, RevParseOut(ParentHead(W).hash)))]
        c1 == [context EXCEPT !.rollbackPoint = <<rollbackPoint>>]
        W1 == [W EXCEPT !.rollbackStack = Append(@, rollbackPoint)]
    IN  IF rollbackPoint.submoduleCommit = Null
        THEN Threw(c1, W1, {"push"}, "TypeError")   \* null.substring, line 159
        ELSE Returned(c1, W1, {"push"})

(* a performUpdate that also commits in the parent repository *)
performUpdate_Commits(context, W, fetchOK, landed) ==
    IF ~existsSync(context.submodule) \/ ~fetchOK
    THEN Threw(context, W, {}, "Command failed: git fetch")
    ELSE IF ~TagExists(context.targetVersion)
    THEN Threw(context, W, {"fetch"}, "Command failed: git checkout")
    ELSE Returned(context,
                  [W EXCEPT !.subHead[context.submodule] = landed,
                            !.parentLog = Append(@, ParentHead(W))],
                  {"fetch", "checkout"})

(* a performUpdate that does not verify the checkout *)
performUpdate_NoVerify(context, W, fetchOK, landed) ==
    IF ~existsSync(context.submodule) \/ ~fetchOK
    THEN Threw(context, W, {}, "Command failed: git fetch")
    ELSE IF ~TagExists(context.targetVersion)
    THEN Threw(context, W, {"fetch"}, "Command failed: git checkout")
    ELSE Returned(context, [W EXCEPT !.subHead[context.submodule] = landed],
                  {"fetch", "checkout"})

(* performUpdate.  fetchOK: `git fetch --tags` exits 0; landed: the commit the
   tag names once the tags are fetched. *)
performUpdate(context, W, fetchOK, landed) ==
    LET submodule == context.submodule
    IN  IF ~existsSync(submodule) \/ ~fetchOK
        THEN Threw(context, W, {}, "Command failed: git fetch")
        ELSE IF ~TagExists(context.targetVersion)
        THEN Threw(context, W, {"fetch"}, "Command failed: git checkout")
        ELSE
        LET W1 == [W EXCEPT !.subHead[submodule] = landed]
            newCommit == Trim(execQuiet(TRUE, RevParseOut(W1.subHead[submodule])))
        IN  IF newCommit # context.targetCommit
            THEN Threw(context, W1, {"fetch", "checkout"}, "Checkout verification failed")
            ELSE Returned(context, W1, {"fetch", "checkout"})

(* a postUpdateValidation that validates the contract whatever the strategy *)
postUpdateValidation_AlwaysCompat(context, W, f, buildOK) ==
    LET gateResults == validateDeploymentReadiness(f)
        contractResults == validateServiceContract(f.contract)
        c2 == [context EXCEPT !.validation =
                 << [criticalIssues |-> gateResults.criticalIssues,
                     notPassed |-> {k \in GateKeys :
                         ~gateResults.gateResults.gateResults[k].passed},
                     contracts |-> << contractResults.breakingChanges >>] >>]
    IN  IF Len(gateResults.criticalIssues) > 0
        THEN Threw(c2, W, {}, "Quality gate failures")
        ELSE IF contractResults.breakingChanges > 0
        THEN Threw(c2, W, {}, "Breaking changes detected")
        ELSE IF f.deployment.hasPackageJson /\ ~buildOK
        THEN Threw(c2, W, {}, "Build verification failed")
        ELSE Returned(c2, W, {})

(* postUpdateValidation.  f: the facts the gate checks and the contract
   validator read in the updated submodule; buildOK: npm ci and the build
   exit 0.  The context keeps the report's criticalIssues, of the gate
   results which gates did not pass, and in contracts the number of breaking
   changes of the contract results (<< >> while the property is not set). *)
postUpdateValidation(context, W, f, buildOK) ==
    LET gateResults == validateDeploymentReadiness(f)
        c1 == [context EXCEPT !.validation =
                 << [criticalIssues |-> gateResults.criticalIssues,
                     notPassed |-> {k \in GateKeys :
                         ~gateResults.gateResults.gateResults[k].passed},
                     contracts |-> <<>>] >>]
        contractResults == validateServiceContract(f.contract)
        c2 == [c1 EXCEPT !.validation[1].contracts =
                 << contractResults.breakingChanges >>]
    IN  IF Len(gateResults.criticalIssues) > 0
        THEN Threw(c1, W, {}, "Quality gate failures")
        ELSE IF context.updateType = "null"
        THEN Threw(c1, W, {}, "TypeError")   \* updateStrategies[null] is undefined
        ELSE IF RequiresCompatibilityTest(updateStrategies[context.updateType])
        THEN IF contractResults.breakingChanges > 0
             THEN Threw(c2, W, {}, "Breaking changes detected")
             ELSE IF f.deployment.hasPackageJson /\ ~buildOK
             THEN Threw(c2, W, {}, "Build verification failed")
             ELSE Returned(c2, W, {})
        ELSE IF f.deployment.hasPackageJson /\ ~buildOK
        THEN Threw(c1, W, {}, "Build verification failed")
        ELSE Returned(c1, W, {})

(* updateParentRepository.  hash: the hash of the commit `git commit` makes.
   The commit records the submodule's HEAD; `git commit` fails when `git add`
   staged nothing. *)
updateParentRepository(context, W, hash) ==
    LET submodule == context.submodule
    IN  IF ~existsSync(submodule)
        THEN Threw(context, W, {}, "Command failed: git add")
        ELSE IF context.currentCommit = Null \/ context.targetCommit = Null
        THEN Threw(context, W, {}, "TypeError")   \* null.substring, lines 247-248
        ELSE IF ParentHead(W).links[submodule] = W.subHead[submodule]
        THEN Threw(context, W, {}, "Command failed: git commit")
        ELSE Returned(context,
                      [W EXCEPT !.parentLog = Append(@,
                          [hash |-> hash,
                           links |-> [ParentHead(W).links EXCEPT
                                        ![submodule] = W.subHead[submodule]]])],
                      {"commit"})

Pop(stack) == IF Len(stack) = 0 THEN stack ELSE SubSeq(stack, 1, Len(stack) - 1)

(* a rollbackUpdate without the test of line 272 *)
rollbackUpdate_NoGuard(context, W, checkoutOK) ==
    IF context.rollbackPoint = <<>>
    THEN Returned(context, [W EXCEPT !.rollbackStack = Pop(@)], {"pop"})
    ELSE IF ~checkoutOK
    THEN Threw(context, W, {}, "Command failed: git checkout")
    ELSE Returned(context,
                  [W EXCEPT !.subHead[context.submodule] =
                                context.rollbackPoint[1].submoduleCommit,
                            !.rollbackStack = Pop(@)],
                  {"checkout", "pop"})

(* rollbackUpdate.  checkoutOK: `git checkout <submoduleCommit>` exits 0. *)
rollbackUpdate(context, W, checkoutOK) ==
    IF context.rollbackPoint = <<>>
    THEN Threw(context, W, {}, "No rollback point available")
    ELSE
    LET submodule == context.submodule
        rollbackPoint == context.rollbackPoint[1]
    IN  IF \/ ~existsSync(submodule)
           \/ rollbackPoint.submoduleCommit = Null
           \/ ~checkoutOK
        THEN Threw(context, W, {}, "Command failed: git checkout")
        ELSE
        LET W1 == [W EXCEPT !.subHead[submodule] = rollbackPoint.submoduleCommit]
            currentParentCommit == Trim(execQuiet(TRUE, RevParseOut(ParentHead(W1).hash)))
        IN  IF currentParentCommit # rollbackPoint.parentCommit
            THEN IF Len(W1.parentLog) = 1
                 THEN Threw(context, W1, {"checkout"}, "Command failed: git reset")
                 ELSE Returned(context,
                               [W1 EXCEPT !.parentLog = SubSeq(@, 1, Len(@) - 1),
                                          !.rollbackStack = Pop(@)],
                               {"checkout", "reset", "pop"})
            ELSE Returned(context, [W1 EXCEPT !.rollbackStack = Pop(@)],
                          {"checkout", "pop"})

(* handleUpdateFailure: a warning, then the rollback; an error of the
   rollback is logged and swallowed.  error is the rollback's error, which
   the caller of handleUpdateFailure never sees; logged is what the logger
   was given. *)
handleUpdateFailure(context, W, checkoutOK) ==
    LET r == rollbackUpdate(context, W, checkoutOK)
    IN  [error |-> r.error, context |-> r.context, world |-> r.world, did |-> r.did,
         logged |-> {"Update failed, initiating rollback"} \cup
                    (IF r.error = "none"
                     THEN {"Rollback completed successfully"}
                     ELSE {"Rollback failed", "Manual intervention required"})]

(* a try block that starts at the snapshot *)
FirstStep_Snapshot == "snapshot"

(* a try block that starts at performUpdate *)
FirstStep_Apply == "apply"

(* The order of the try block of updateSubmodule. *)
FirstStep == "preValidate"

NextStep(step) ==
    CASE step = "preValidate"  -> "snapshot"
      [] step = "snapshot"     -> "apply"
      [] step = "apply"        -> "postValidate"
      [] step = "postValidate" -> "commit"
      [] step = "commit"       -> "returned"

(* updateSubmodule run from its first statement to its return or throw with
   no other caller in between (lines 24-62).  e: what the commands of the
   steps meet; r: what the step before left.  Statement carries out one
   statement of the try block; a failed one hands the context to
   handleUpdateFailure and its error is rethrown. *)
Statement(step, context, W, e) ==
    CASE step = "preValidate"  -> preUpdateValidation(context, W, e.dirty)
      [] step = "snapshot"     -> createRollbackPoint(context, W)
      [] step = "apply"        -> performUpdate(context, W, e.fetchOK, e.landed)
      [] step = "postValidate" -> postUpdateValidation(context, W, e.f, e.buildOK)
      [] step = "commit"       -> updateParentRepository(context, W, e.hash)

RECURSIVE TryBlock(_, _, _)
TryBlock(step, r, e) ==
    IF r.error # "none"
    THEN LET h == handleUpdateFailure(r.context, r.world, e.checkoutOK)
         IN  Threw(h.context, h.world, h.did, r.error)
    ELSE IF step = "returned" THEN r
    ELSE TryBlock(NextStep(step), Statement(step, r.context, r.world, e), e)

updateSubmodule(submodulePath, version, W, e) ==
    TryBlock(FirstStep, Returned(NewContext(submodulePath, version), W, {}), e)

(* determineUpdateTypeSync: the same answer for every update *)
determineUpdateTypeSync(update) == "medium"

riskOrder == [low |-> 1, medium |-> 2, high |-> 3]

(* The comparator of the sort in batchUpdate (lines 304-308).
   this.updateStrategies[type] is undefined for a type that is not one of
   its keys, and reading .riskLevel of undefined throws a TypeError. *)
compareRisk(a, b) ==
    LET aType == determineUpdateTypeSync(a)
        bType == determineUpdateTypeSync(b)
    IN  IF aType \notin DOMAIN updateStrategies \/ bType \notin DOMAIN updateStrategies
        THEN [threw |-> TRUE, value |-> 0]
        ELSE [threw |-> FALSE,
              value |-> riskOrder[updateStrategies[aType].riskLevel]
                          - riskOrder[updateStrategies[bType].riskLevel]]

(* x put into the sorted sequence s behind every element that does not
   compare greater than it *)
RECURSIVE InsertSorted(_, _)
InsertSorted(s, x) ==
    IF s = <<>> THEN <<x>>
    ELSE IF compareRisk(s[Len(s)], x).value <= 0 THEN Append(s, x)
    ELSE Append(InsertSorted(SubSeq(s, 1, Len(s) - 1), x), s[Len(s)])

RECURSIVE StableSort(_)
StableSort(s) ==
    IF s = <<>> THEN <<>>
    ELSE InsertSorted(StableSort(SubSeq(s, 1, Len(s) - 1)), s[Len(s)])

(* updates.sort(comparator): Array.prototype.sort is stable and calls the
   comparator only for an array of two or more elements; an exception of the
   comparator leaves the sort. *)
sort(updates) ==
    IF /\ Len(updates) >= 2
       /\ \E i, j \in 1..Len(updates) :
              i # j /\ compareRisk(updates[i], updates[j]).threw
    THEN [threw |-> TRUE, value |-> <<>>]
    ELSE [threw |-> FALSE, value |-> StableSort(updates)]

(* the locals of batchUpdate before the call: results as line 297 makes it *)
IdleBatch ==
    [pc |-> "idle", updates |-> <<>>, stopOnError |-> FALSE,
     sortedUpdates |-> <<>>, next |-> 1,
     results |-> [successful |-> <<>>, failed |-> <<>>, skipped |-> <<>>],
     error |-> "none"]

(* The update contexts there will be, each made once, by updateSubmodule or
   by a caller; and the updater as constructed over repositories whose
   submodules are at `heads`. *)
Slots == {"A", "B"}

UpdaterAt(heads) ==
    /\ subHead = heads
    /\ parentLog = << [hash |-> ParentHash(0), links |-> heads],
                      [hash |-> ParentHash(1), links |-> heads] >>
    /\ rollbackStack = <<>>
    /\ ctx = [c \in Slots |-> NewContext("missing", S_empty)]
    /\ pc = [c \in Slots |-> "idle"]
    /\ entry = [c \in Slots |-> "none"]
    /\ attempt = [c \in Slots |-> [approved |-> FALSE, dirty |-> FALSE,
                                    moduleHead |-> Null]]
    /\ error = [c \in Slots |-> "none"]
    /\ effects = [c \in Slots |-> {}]
    /\ restored = [c \in Slots |-> 0]
    /\ calls = [methods |-> 0, commits |-> 0, last |-> <<>>]
    /\ logged = [c \in Slots |-> {}]
    /\ batch = IdleBatch

IdleUpdater == UpdaterAt([m \in Modules |-> ModuleHash(0)])

----------------------------------------------------------------------------
(* Gate results the aggregation is exercised on *)

ScoreSamples == {Points(0), Points(50), Points(100)}

ResultSamples == [score : ScoreSamples, passed : BOOLEAN]

GateResultsSamples ==
    UNION {[present -> ResultSamples] : present \in SUBSET GateKeys}

(* The evaluation object as evaluateServiceGates creates it. *)
NewEvaluation(results) ==
    [overallScore |-> Fraction(0, 1), canDeploy |-> FALSE, gateResults |-> results]

IdleEvaluation == NewEvaluation(<<>>)

(* no gate evaluator has been called *)
IdleGateRun == [gate |-> "none", facts |-> <<>>, result |-> <<>>]

----------------------------------------------------------------------------
(* Specification of the classifier: the inputs are drawn, then classified *)

InitClassify ==
    /\ describeOut \in DescribeOutputs
    /\ targetVersion \in VersionSamples
    /\ classified = "none"
    /\ evaluation = IdleEvaluation
    /\ evalPc = "idle"
    /\ gateRun = IdleGateRun
    /\ IdleUpdater

Classify ==
    /\ classified = "none"
    /\ classified' = determineUpdateType(describeOut, targetVersion)
    /\ UNCHANGED <<describeOut, targetVersion>>
    /\ UNCHANGED <<gateVars, updVars>>

NextClassify == Classify

SpecClassify == InitClassify /\ [][NextClassify]_vars

----------------------------------------------------------------------------
(* Specification of the aggregation: gate results are drawn, then
   evaluateServiceGates scores them and decides *)

InitGates ==
    /\ evaluation \in {NewEvaluation(r) : r \in GateResultsSamples}
    /\ evalPc = "score"
    /\ gateRun = IdleGateRun
    /\ describeOut = Null
    /\ targetVersion = S_empty
    /\ classified = "none"
    /\ IdleUpdater

CalculateOverallScore ==
    /\ evalPc = "score"
    /\ evaluation' = [evaluation EXCEPT
          !.overallScore = calculateOverallScore(gates, evaluation.gateResults)]
    /\ evalPc' = "decide"
    /\ UNCHANGED <<gateRun, classifyVars, updVars>>

CanServiceDeploy ==
    /\ evalPc = "decide"
    /\ evaluation' = [evaluation EXCEPT
          !.canDeploy = canServiceDeploy(gates, evaluation)]
    /\ evalPc' = "done"
    /\ UNCHANGED <<gateRun, classifyVars, updVars>>

NextGates == CalculateOverallScore \/ CanServiceDeploy

SpecGates == InitGates /\ [][NextGates]_vars

----------------------------------------------------------------------------
(* Specification of the gate evaluators: what the checks of one gate find is
   drawn, then the gate's evaluator scores it.  The checks that this revision
   stubs with a constant are drawn like the others. *)

(* the largest number of vulnerabilities `npm audit` reports, and of breaking
   changes detectContractChanges lists *)
MaxVulnerabilities == 7

MaxBreaking == 6

SecurityInputs ==
    [hasSecurityPolicy : BOOLEAN, secureGitignore : BOOLEAN,
     hasEnvExample : BOOLEAN, noHardcodedSecrets : BOOLEAN,
     vulnerabilityCount : 0..MaxVulnerabilities,
     httpsEnforced : BOOLEAN, hasAuth : BOOLEAN, threw : BOOLEAN]

StabilityInputs ==
    [hasStableTag : BOOLEAN, hasTests : BOOLEAN,
     testCoverage : {0, 10, 19, 20, 21, 80, 100},
     buildPasses : BOOLEAN, hasErrorHandling : BOOLEAN, canRollback : BOOLEAN,
     hasHealthEndpoint : BOOLEAN, threw : BOOLEAN]

PerformanceInputs ==
    [bundleSize : {1000000, 5000000, 5000001},
     buildTime : {120, 300, 301},
     dependencyCount : {25, 50, 51}, threw : BOOLEAN]

ContractInputs ==
    [hasContractFile : BOOLEAN, syntaxValid : BOOLEAN, versionFound : BOOLEAN,
     hasPrevious : BOOLEAN, breaking : 0..MaxBreaking, compatThrows : BOOLEAN,
     threw : BOOLEAN]

DeploymentInputs ==
    [hasPackageJson : BOOLEAN, hasBuildScript : BOOLEAN, hasStartScript : BOOLEAN,
     hasDeploymentConfig : BOOLEAN, hasEnvConfig : BOOLEAN,
     hasHealthCheck : BOOLEAN, prodReady : BOOLEAN, threw : BOOLEAN]

GateRunOf(gate, inputs) ==
    {[gate |-> gate, facts |-> f, result |-> <<>>] : f \in inputs}

InitEvaluate ==
    /\ gateRun \in GateRunOf("security", SecurityInputs)
                     \cup GateRunOf("stability", StabilityInputs)
                     \cup GateRunOf("performance", PerformanceInputs)
                     \cup GateRunOf("contract", ContractInputs)
                     \cup GateRunOf("deployment", DeploymentInputs)
    /\ evaluation = IdleEvaluation
    /\ evalPc = "idle"
    /\ describeOut = Null
    /\ targetVersion = S_empty
    /\ classified = "none"
    /\ IdleUpdater

(* The evaluator of the drawn gate is called and returns the gate object. *)
EvaluateSecurityGate ==
    /\ gateRun.gate = "security"
    /\ gateRun.result = <<>>
    /\ gateRun' = [gateRun EXCEPT !.result = <<evaluateSecurityGate(gateRun.facts)>>]
    /\ UNCHANGED <<evaluation, evalPc, classifyVars, updVars>>

EvaluateStabilityGate ==
    /\ gateRun.gate = "stability"
    /\ gateRun.result = <<>>
    /\ gateRun' = [gateRun EXCEPT !.result = <<evaluateStabilityGate(gateRun.facts)>>]
    /\ UNCHANGED <<evaluation, evalPc, classifyVars, updVars>>

EvaluatePerformanceGate ==
    /\ gateRun.gate = "performance"
    /\ gateRun.result = <<>>
    /\ gateRun' = [gateRun EXCEPT !.result = <<evaluatePerformanceGate(gateRun.facts)>>]
    /\ UNCHANGED <<evaluation, evalPc, classifyVars, updVars>>

EvaluateContractGate ==
    /\ gateRun.gate = "contract"
    /\ gateRun.result = <<>>
    /\ gateRun' = [gateRun EXCEPT !.result = <<evaluateContractGate(gateRun.facts)>>]
    /\ UNCHANGED <<evaluation, evalPc, classifyVars, updVars>>

EvaluateDeploymentGate ==
    /\ gateRun.gate = "deployment"
    /\ gateRun.result = <<>>
    /\ gateRun' = [gateRun EXCEPT !.result = <<evaluateDeploymentGate(gateRun.facts)>>]
    /\ UNCHANGED <<evaluation, evalPc, classifyVars, updVars>>

NextEvaluate ==
    \/ EvaluateSecurityGate
    \/ EvaluateStabilityGate
    \/ EvaluatePerformanceGate
    \/ EvaluateContractGate
    \/ EvaluateDeploymentGate

SpecEvaluate == InitEvaluate /\ [][NextEvaluate]_vars

----------------------------------------------------------------------------
(* What the gate checks can find in a submodule.  The stubbed checks return
   their constants; the others read files, tags and `npm audit`. *)

SecurityFacts(found, vulnerabilityCount, threw) ==
    [hasSecurityPolicy |-> found, secureGitignore |-> found,
     hasEnvExample |-> found, noHardcodedSecrets |-> found,
     vulnerabilityCount |-> vulnerabilityCount,
     httpsEnforced |-> TRUE, hasAuth |-> TRUE, threw |-> threw]

StabilityFacts(hasStableTag, hasTests) ==
    [hasStableTag |-> hasStableTag, hasTests |-> hasTests, testCoverage |-> 80,
     buildPasses |-> TRUE, hasErrorHandling |-> TRUE, canRollback |-> TRUE,
     hasHealthEndpoint |-> TRUE, threw |-> FALSE]

PerformanceFacts ==
    [bundleSize |-> 1000000, buildTime |-> 120, dependencyCount |-> 25,
     threw |-> FALSE]

ContractFacts(hasContractFile, breaking) ==
    [hasContractFile |-> hasContractFile, syntaxValid |-> TRUE,
     versionFound |-> TRUE, hasPrevious |-> TRUE, breaking |-> breaking,
     compatThrows |-> FALSE, threw |-> FALSE]

DeploymentFacts(hasPackageJson) ==
    [hasPackageJson |-> hasPackageJson, hasBuildScript |-> TRUE,
     hasStartScript |-> TRUE, hasDeploymentConfig |-> TRUE,
     hasEnvConfig |-> TRUE, hasHealthCheck |-> TRUE, prodReady |-> TRUE,
     threw |-> FALSE]

SecuritySamples ==
    {SecurityFacts(TRUE, 0, FALSE),     \* 7 of 7 checks: 100
     SecurityFacts(FALSE, 0, FALSE),    \* 3 of 7 checks: 42.86
     SecurityFacts(TRUE, 0, TRUE)}      \* reading .gitignore threw

StabilitySamples == {StabilityFacts(TRUE, TRUE)}

ContractSamples == {ContractFacts(TRUE, 0), ContractFacts(TRUE, 1)}

DeploymentSamples == {DeploymentFacts(TRUE)}

FactSamples ==
    [security : SecuritySamples, stability : StabilitySamples,
     performance : {PerformanceFacts}, contract : ContractSamples,
     deployment : DeploymentSamples]

----------------------------------------------------------------------------
(* Specification of the updater: callers call updateSubmodule, or call the
   methods of the updater themselves on an update context they hold. *)

(* how many times callers call the updater: updateSubmodule, or one of its
   methods on a context they hold *)
MaxCalls == 4

(* the submodule starts at its tag v1.2.3 *)
InitialHeads ==
    {[dashboard |-> ModuleHash(2)]}

TargetSamples == {S_v1_2_4, S_v2_0_0}

(* the versions callers prepare a context for: a patch, a minor and a major
   update of v1.2.3 *)
PreparedTargets == {S_v1_2_4, S_1_3_0, S_v2_0_0}

InitUpdater == \E heads \in InitialHeads : UpdaterAt(heads)

Init ==
    /\ InitUpdater
    /\ describeOut = Null
    /\ targetVersion = S_empty
    /\ classified = "none"
    /\ evaluation = IdleEvaluation
    /\ evalPc = "idle"
    /\ gateRun = IdleGateRun

(* the slots are interchangeable: a caller takes slot B once slot A is taken *)
SlotFree(c) == c = "B" => pc["A"] # "idle"

NewAttempt(path, approved, dirty) ==
    [approved |-> approved, dirty |-> dirty,
     moduleHead |-> IF existsSync(path) THEN subHead[path] ELSE Null]

(* updateSubmodule(path, version, {approved}) is called: lines 25-37. *)
UpdateSubmodule(c, path, version, approved, dirty) ==
    /\ pc[c] = "idle"
    /\ SlotFree(c)
    /\ calls.methods < MaxCalls
    /\ calls' = [calls EXCEPT !.methods = @ + 1, !.last = <<c, "updateSubmodule">>]
    /\ ctx' = [ctx EXCEPT ![c] = NewContext(path, version)]
    /\ pc' = [pc EXCEPT ![c] = FirstStep]
    /\ entry' = [entry EXCEPT ![c] = "updateSubmodule"]
    /\ attempt' = [attempt EXCEPT ![c] = NewAttempt(path, approved, dirty)]
    /\ error' = [error EXCEPT ![c] = "none"]
    /\ effects' = [effects EXCEPT ![c] = {}]
    /\ restored' = [restored EXCEPT ![c] = 0]
    /\ UNCHANGED <<subHead, parentLog, rollbackStack, logged, batch, classifyVars, gateVars>>

(* A caller makes an update context of its own for a submodule and a tag,
   holding what lines 81, 89 and 92 put into a context. *)
PreparedContext(submodule, version) ==
    [NewContext(submodule, version) EXCEPT
        !.currentCommit = Trim(execQuiet(TRUE, RevParseOut(subHead[submodule]))),
        !.targetCommit = Trim(execQuiet(TRUE, RevParseOut(ModuleHash(TagIndex(version))))),
        !.updateType = determineUpdateType(DescribeOutAt(subHead[submodule]), version)]

Prepare(c, submodule, version) ==
    /\ pc[c] = "idle"
    /\ SlotFree(c)
    /\ TagExists(version)
    /\ ctx' = [ctx EXCEPT ![c] = PreparedContext(submodule, version)]
    /\ pc' = [pc EXCEPT ![c] = "held"]
    /\ entry' = [entry EXCEPT ![c] = "direct"]
    /\ attempt' = [attempt EXCEPT ![c] = NewAttempt(submodule, FALSE, FALSE)]
    /\ error' = [error EXCEPT ![c] = "none"]
    /\ effects' = [effects EXCEPT ![c] = {}]
    /\ restored' = [restored EXCEPT ![c] = 0]
    /\ UNCHANGED <<subHead, parentLog, rollbackStack, calls, logged, batch, classifyVars, gateVars>>

(* A method of the updater runs either as the statement `step` of the try
   block of updateSubmodule, or called by the holder of a context.  It is one
   step: createRollbackPoint, performUpdate, updateParentRepository and
   rollbackUpdate have no await in their bodies; postUpdateValidation awaits
   the gates and the contract validator, which read the submodule's files
   (the facts f) and write nothing to the repositories or the stack;
   preUpdateValidation awaits only at line 92, after its reads. *)
Runs(c, step) ==
    \/ pc[c] = step
    \/ pc[c] = "held" /\ calls.methods < MaxCalls

(* What a method leaves when it is over: the context and the repositories
   as it left them; inside updateSubmodule the next statement of the try
   block, or the catch block; back to the caller otherwise.  error and
   effects of a held context are those of the call just made on it (none
   once another method has run); calls.last is the context and method of
   the step just taken. *)
Leave(c, step, r) ==
    /\ ctx' = [ctx EXCEPT ![c] = r.context]
    /\ subHead' = r.world.subHead
    /\ parentLog' = r.world.parentLog
    /\ rollbackStack' = r.world.rollbackStack
    /\ error' = [d \in Slots |-> IF d = c THEN r.error
                                   ELSE IF pc[d] = "held" THEN "none" ELSE error[d]]
    /\ effects' = [d \in Slots |-> IF d = c THEN (IF pc[c] = "held" THEN r.did ELSE effects[c] \cup r.did)
                                   ELSE IF pc[d] = "held" THEN {} ELSE effects[d]]
    /\ pc' = [pc EXCEPT ![c] =
                IF pc[c] = "held" THEN "held"
                ELSE IF r.error = "none" THEN NextStep(step)
                ELSE "handleFailure"]
    /\ calls' = [methods |-> calls.methods + (IF pc[c] = "held" THEN 1 ELSE 0),
                 commits |-> calls.commits + (IF "commit" \in r.did THEN 1 ELSE 0),
                 last |-> <<c, step>>]
    /\ UNCHANGED <<entry, attempt, logged, batch, classifyVars, gateVars>>

(* restored[c]: whether rollbackUpdate has returned for the rollback point of
   context c: 0 not yet, 1 once, 2 more than once *)
Restored(n, r) == IF r.error = "none" /\ n < 2 THEN n + 1 ELSE n

PreUpdateValidation(c) ==
    /\ pc[c] = "preValidate"
    /\ Leave(c, "preValidate", preUpdateValidation(ctx[c], World, attempt[c].dirty))
    /\ UNCHANGED restored

CreateRollbackPoint(c) ==
    /\ Runs(c, "snapshot")
    /\ Leave(c, "snapshot", createRollbackPoint(ctx[c], World))
    /\ restored' = [restored EXCEPT ![c] = 0]

PerformUpdate(c) ==
    /\ Runs(c, "apply")
    /\ \E fetchOK \in BOOLEAN :
       \E landed \in {ModuleHash(0)} \cup
                     {ModuleHash(TagIndex(v)) :
                         v \in {w \in {ctx[c].targetVersion} : TagExists(w)}} :
           Leave(c, "apply", performUpdate(ctx[c], World, fetchOK, landed))
    /\ UNCHANGED restored

PostUpdateValidation(c) ==
    /\ Runs(c, "postValidate")
    /\ \E f \in FactSamples, buildOK \in BOOLEAN :
           Leave(c, "postValidate", postUpdateValidation(ctx[c], World, f, buildOK))
    /\ UNCHANGED restored

(* the n-th commit the updater makes has the hash ParentHash(1 + n) *)
UpdateParentRepository(c) ==
    /\ Runs(c, "commit")
    /\ Leave(c, "commit",
             updateParentRepository(ctx[c], World, ParentHash(2 + calls.commits)))
    /\ UNCHANGED restored

(* the catch block of updateSubmodule: the rollback, then `throw error` *)
HandleUpdateFailure(c) ==
    /\ pc[c] = "handleFailure"
    /\ \E checkoutOK \in BOOLEAN :
         LET r == handleUpdateFailure(ctx[c], World, checkoutOK)
         IN  /\ ctx' = [ctx EXCEPT ![c] = r.context]
             /\ subHead' = r.world.subHead
             /\ parentLog' = r.world.parentLog
             /\ rollbackStack' = r.world.rollbackStack
             /\ effects' = [effects EXCEPT ![c] = @ \cup r.did]
             /\ restored' = [restored EXCEPT ![c] = Restored(@, r)]
             /\ logged' = [logged EXCEPT ![c] = r.logged]
    /\ pc' = [pc EXCEPT ![c] = "raised"]
    /\ calls' = [calls EXCEPT !.last = <<c, "handleFailure">>]
    /\ UNCHANGED <<entry, attempt, error, batch, classifyVars, gateVars>>

(* rollbackUpdate called by the holder of the context *)
RollbackUpdate(c) ==
    /\ Runs(c, "rollback")
    /\ \E checkoutOK \in BOOLEAN :
         LET r == rollbackUpdate(ctx[c], World, checkoutOK)
         IN  /\ Leave(c, "rollback", r)
             /\ restored' = [restored EXCEPT ![c] = Restored(@, r)]

Next ==
    \/ \E c \in Slots, path \in Paths, version \in TargetSamples,
          approved \in BOOLEAN, dirty \in BOOLEAN :
            UpdateSubmodule(c, path, version, approved, dirty)
    \/ \E c \in Slots, submodule \in Modules, version \in PreparedTargets :
            Prepare(c, submodule, version)
    \/ \E c \in Slots : PreUpdateValidation(c)
    \/ \E c \in Slots : CreateRollbackPoint(c)
    \/ \E c \in Slots : PerformUpdate(c)
    \/ \E c \in Slots : PostUpdateValidation(c)
    \/ \E c \in Slots : UpdateParentRepository(c)
    \/ \E c \in Slots : HandleUpdateFailure(c)
    \/ \E c \in Slots : RollbackUpdate(c)

Spec == Init /\ [][Next]_vars

----------------------------------------------------------------------------
(* Specification of the batch: one caller calls batchUpdate on a list of
   updates; nothing else uses the updater meanwhile. *)

(* the longest list of updates passed to batchUpdate *)
MaxBatch == 3

BatchRequests ==
    [submodule : Paths, targetVersion : {S_v1_2_4, S_v2_0_0}]

BatchLists == UNION {[1..n -> BatchRequests] : n \in 0..MaxBatch}

(* what the commands of one updateSubmodule of the batch meet *)
BatchSurroundings(update, n) ==
    [dirty : BOOLEAN, fetchOK : BOOLEAN,
     landed : {ModuleHash(0)} \cup
              {ModuleHash(TagIndex(v)) : v \in {w \in {update.targetVersion} : TagExists(w)}},
     f : FactSamples, buildOK : BOOLEAN, hash : {ParentHash(2 + n)},
     checkoutOK : BOOLEAN]

InitBatch == Init

(* batchUpdate(updates, options) is called: lines 294-309, and with nothing
   to process lines 337-338. *)
BatchUpdate(updates, stopOnError) ==
    /\ batch.pc = "idle"
    /\ LET sortedUpdates == sort(updates)
           called == [batch EXCEPT !.updates = updates, !.stopOnError = stopOnError]
       IN  batch' = IF sortedUpdates.threw
                    THEN [called EXCEPT !.pc = "raised", !.error = "TypeError"]
                    ELSE [called EXCEPT !.sortedUpdates = sortedUpdates.value,
                                        !.pc = IF Len(sortedUpdates.value) = 0
                                               THEN "returned" ELSE "loop"]
    /\ UNCHANGED <<subHead, parentLog, rollbackStack, ctx, pc, entry, attempt,
                   error, effects, restored, calls, logged, classifyVars, gateVars>>

(* One turn of the loop of lines 311-335, and after the last one lines
   337-338. *)
BatchProcess ==
    /\ batch.pc = "loop"
    /\ LET update == batch.sortedUpdates[batch.next]
           n == Len(batch.results.successful) + Len(batch.results.failed)
       IN  \E e \in BatchSurroundings(update, n) :
           \E r \in {updateSubmodule(update.submodule, update.targetVersion, World, e)} :
             LET left == r.error # "none" /\ batch.stopOnError
                 results ==
                     IF r.error = "none"
                     THEN [batch.results EXCEPT !.successful =
                             Append(@, [submodule |-> r.context.submodule,
                                        targetVersion |-> r.context.targetVersion])]
                     ELSE [batch.results EXCEPT !.failed =
                             Append(@, [submodule |-> update.submodule,
                                        targetVersion |-> update.targetVersion,
                                        error |-> r.error])]
             IN  /\ subHead' = r.world.subHead
                 /\ parentLog' = r.world.parentLog
                 /\ rollbackStack' = r.world.rollbackStack
                 /\ batch' = [batch EXCEPT
                        !.results = results,
                        !.next = @ + 1,
                        !.pc = IF left \/ batch.next = Len(batch.sortedUpdates)
                               THEN "returned" ELSE "loop"]
    /\ UNCHANGED <<ctx, pc, entry, attempt, error, effects, restored, calls,
                   logged, classifyVars, gateVars>>

NextBatch ==
    \/ \E updates \in BatchLists, stopOnError \in BOOLEAN :
            BatchUpdate(updates, stopOnError)
    \/ BatchProcess

SpecBatch == InitBatch /\ [][NextBatch]_vars

----------------------------------------------------------------------------
(* Specification of the quality report: what the checks of the five gates
   find in one service is drawn, then evaluateServiceGates runs the five
   evaluators, scores, decides and collects the issues. *)

ReportSecurity ==
    {f \in SecurityInputs :
        /\ f.secureGitignore /\ f.hasEnvExample /\ f.noHardcodedSecrets
        /\ f.httpsEnforced /\ f.hasAuth
        /\ f.vulnerabilityCount \in {0, 1}
        /\ f.threw => (f.hasSecurityPolicy /\ f.vulnerabilityCount = 0)}

ReportStability ==
    {f \in StabilityInputs :
        /\ f.hasStableTag /\ f.buildPasses /\ f.hasErrorHandling /\ f.canRollback
        /\ f.testCoverage = 80
        /\ f.threw => (f.hasTests /\ f.hasHealthEndpoint)}

ReportPerformance ==
    {f \in PerformanceInputs :
        /\ f.bundleSize # 5000000 /\ f.buildTime # 300 /\ f.dependencyCount # 50
        /\ f.threw => (f.bundleSize = 1000000 /\ f.buildTime = 120
                          /\ f.dependencyCount = 25)}

ReportContract ==
    {f \in ContractInputs :
        /\ f.syntaxValid /\ f.hasPrevious /\ ~f.compatThrows
        /\ f.breaking \in {0, 1}
        /\ ~f.hasContractFile => (f.versionFound /\ f.breaking = 0 /\ ~f.threw)
        /\ f.threw => (f.versionFound /\ f.breaking = 0)}

ReportDeployment ==
    {f \in DeploymentInputs :
        /\ f.hasBuildScript /\ f.hasStartScript /\ f.hasDeploymentConfig
        /\ f.hasEnvConfig /\ f.hasHealthCheck /\ f.prodReady
        /\ f.threw => f.hasPackageJson}

ReportFacts ==
    [security : ReportSecurity, stability : ReportStability,
     performance : ReportPerformance, contract : ReportContract,
     deployment : ReportDeployment]

InitReport ==
    /\ gateRun \in {[gate |-> "all", facts |-> f, result |-> <<>>] : f \in ReportFacts}
    /\ evaluation = IdleEvaluation
    /\ evalPc = "gates"
    /\ describeOut = Null
    /\ targetVersion = S_empty
    /\ classified = "none"
    /\ IdleUpdater

(* lines 188-202: the five evaluators fill evaluation.gateResults *)
EvaluateGates ==
    /\ evalPc = "gates"
    /\ evaluation' = [evaluation EXCEPT !.gateResults =
          [security    |-> evaluateSecurityGate(gateRun.facts.security),
           stability   |-> evaluateStabilityGate(gateRun.facts.stability),
           performance |-> evaluatePerformanceGate(gateRun.facts.performance),
           contract    |-> evaluateContractGate(gateRun.facts.contract),
           deployment  |-> evaluateDeploymentGate(gateRun.facts.deployment)]]
    /\ evalPc' = "score"
    /\ UNCHANGED <<gateRun, classifyVars, updVars>>

(* line 211: collectIssues fills criticalFailures and warnings, which were
   empty until then *)
CollectIssues ==
    /\ evalPc = "done"
    /\ gateRun.gate = "all"
    /\ \E collected \in {collectIssues(gates, evaluation.gateResults)} :
          evaluation' = [overallScore     |-> evaluation.overallScore,
                         canDeploy        |-> evaluation.canDeploy,
                         gateResults      |-> evaluation.gateResults,
                         criticalFailures |-> collected.criticalFailures,
                         warnings         |-> collected.warnings]
    /\ evalPc' = "collected"
    /\ UNCHANGED <<gateRun, classifyVars, updVars>>

NextReport ==
    \/ EvaluateGates
    \/ CalculateOverallScore
    \/ CanServiceDeploy
    \/ CollectIssues

SpecReport == InitReport /\ [][NextReport]_vars

----------------------------------------------------------------------------
(* Claims about the classifier (SpecClassify) *)

(* The components of the version samples, written out by hand. *)
SampleTriple(v) ==
    CASE v \in {S_1_0_0, S_v1_0_0} -> <<1, 0, 0>>
      [] v \in {S_1_2_3, S_v1_2_3} -> <<1, 2, 3>>
      [] v = S_v1_2_4 -> <<1, 2, 4>>
      [] v = S_1_3_0 -> <<1, 3, 0>>
      [] v = S_1_5_0 -> <<1, 5, 0>>
      [] v = S_1_9_9 -> <<1, 9, 9>>
      [] v = S_1_10_0 -> <<1, 10, 0>>
      [] v \in {S_2_0_0, S_v2_0_0, S_2_0_0_rc} -> <<2, 0, 0>>

(* The tag `git describe` printed, when it printed one of the samples. *)
DescribedSamples == {v \in VersionSamples : describeOut = v \o <<NL>>}

BothSemver ==
    /\ classified # "none"
    /\ DescribedSamples \cap SemverSamples # {}
    /\ targetVersion \in SemverSamples

CurTriple == SampleTriple(CHOOSE v \in DescribedSamples : TRUE)

TgtTriple == SampleTriple(targetVersion)

ClassifiedFrom(cur, tgt, type) ==
    (/\ classified # "none"
     /\ describeOut = cur \o <<NL>>
     /\ targetVersion = tgt) => classified = type

(* C7: for two versions that both match the semver pattern the classification
   follows the precedence major, then minor, then patch: a higher major
   component gives major, otherwise a higher minor component gives minor,
   otherwise a higher patch component gives patch; 1.2.3 -> 1.3.0 is minor,
   1.2.3 -> 2.0.0 is major and 1.2.3 -> 1.2.3 is patch. *)
C7_ClassifyPrecedence ==
    /\ BothSemver =>
          /\ TgtTriple[1] > CurTriple[1] => classified = "major"
          /\ (TgtTriple[1] <= CurTriple[1] /\ TgtTriple[2] > CurTriple[2])
                => classified = "minor"
          /\ (/\ TgtTriple[1] <= CurTriple[1]
              /\ TgtTriple[2] <= CurTriple[2]
              /\ TgtTriple[3] > CurTriple[3]) => classified = "patch"
    /\ ClassifiedFrom(S_1_2_3, S_1_3_0, "minor")
    /\ ClassifiedFrom(S_1_2_3, S_2_0_0, "major")
    /\ ClassifiedFrom(S_1_2_3, S_1_2_3, "patch")

C7_Witness ==
    /\ describeOut = S_1_2_3 \o <<NL>>
    /\ targetVersion = S_1_3_0
    /\ classified = "minor"

LexLeq(a, b) ==
    \/ a[1] < b[1]
    \/ a[1] = b[1] /\ a[2] < b[2]
    \/ a[1] = b[1] /\ a[2] = b[2] /\ a[3] <= b[3]

(* C8: when both versions match the semver pattern and the target triple is
   equal to or lower than the current triple in lexicographic order (2.0.0 ->
   1.5.0), the classification is patch. *)
C8_RegressiveIsPatch ==
    (BothSemver /\ LexLeq(TgtTriple, CurTriple)) => classified = "patch"

(* C9: the classification is major whenever the current or the target version
   fails the semver pattern, also when the module has no version tag at all
   (HEAD -> v1.0.0); classifying never ends in an error. *)
C9_NonSemverIsMajor ==
    classified # "none" =>
        /\ classified \in {"patch", "minor", "major"}
        /\ (\/ describeOut = Null
            \/ DescribedSamples \cap NonSemverSamples # {}
            \/ targetVersion \in NonSemverSamples) => classified = "major"

C9_Witness ==
    /\ describeOut = S_HEAD \o <<NL>>
    /\ targetVersion = S_v1_0_0
    /\ classified = "major"

----------------------------------------------------------------------------
(* Claims about the aggregation (SpecGates) *)

(* Weights and criticality of the five gates, written out by hand. *)
WeightOf == [security |-> 25, stability |-> 20, performance |-> 15,
             contract |-> 20, deployment |-> 20]

CriticalKeys == {"security", "stability", "contract", "deployment"}

RECURSIVE SumOver(_, _)
SumOver(keys, f) ==
    IF keys = {} THEN 0
    ELSE LET k == CHOOSE x \in keys : TRUE
         IN  f[k] + SumOver(keys \ {k}, f)

Present == DOMAIN evaluation.gateResults

WeightedScores == [k \in Present |-> evaluation.gateResults[k].score * WeightOf[k]]

PresentWeights == [k \in Present |-> WeightOf[k]]

Scored == evalPc \in {"decide", "done"}

FourAt100OneAt0 ==
    /\ Present = GateKeys
    /\ \A k \in GateKeys \ {"deployment"} :
          evaluation.gateResults[k] = [score |-> Points(100), passed |-> TRUE]
    /\ evaluation.gateResults["deployment"] = [score |-> Points(0), passed |-> FALSE]

(* C5: for an evaluation holding results for all five gates, canDeploy is true
   if and only if overallScore >= 80 and every critical gate has passed = true;
   with four gates at 100 and one critical gate of weight 20 at 0 (not passed)
   the overall score is at least 80 and canDeploy is false. *)
C5_CanDeployIff ==
    (evalPc = "done" /\ Present = GateKeys) =>
        /\ evaluation.canDeploy <=>
              /\ evaluation.overallScore.num >= 80 * evaluation.overallScore.den
              /\ \A k \in CriticalKeys : evaluation.gateResults[k].passed
        /\ FourAt100OneAt0 =>
              /\ evaluation.overallScore.num >= 80 * evaluation.overallScore.den
              /\ ~evaluation.canDeploy

C5_Witness == evalPc = "done" /\ FourAt100OneAt0

(* The two-gate table of the example: weights 25 and 75. *)
ExampleTable ==
    << [name |-> "Security Gate",  weight |-> 25, critical |-> TRUE],
       [name |-> "Stability Gate", weight |-> 75, critical |-> TRUE] >>

ExampleResults ==
    [security  |-> [score |-> Points(100), passed |-> TRUE],
     stability |-> [score |-> Points(50),  passed |-> FALSE]]

(* C6: overallScore is the weighted mean of the scores of exactly the gates
   that produced a result, sum(score * weight) / sum(weight of the present
   gates); a gate without a result adds to neither sum.  Scores 100 (weight 25)
   and 50 (weight 75) give 62.5. *)
C6_WeightedMeanOfPresent ==
    /\ (Scored /\ Present # {}) =>
          evaluation.overallScore.num * (7 * SumOver(Present, PresentWeights))
            = evaluation.overallScore.den * SumOver(Present, WeightedScores)
    /\ LET ex == calculateOverallScore(ExampleTable, ExampleResults)
       IN  2 * ex.num = 125 * ex.den

(* Security is the only result and scores 50: the mean is 50, not 12.5. *)
C6_Witness ==
    /\ Scored
    /\ Present = {"security"}
    /\ evaluation.gateResults["security"].score = Points(50)
    /\ evaluation.overallScore.num = 50 * evaluation.overallScore.den

----------------------------------------------------------------------------
(* Claims about the updater (Spec) *)

(* the update type of the request context c was made for, from the
   submodule's tag when the request was made *)
RequestedType(c) ==
    determineUpdateType(DescribeOutAt(attempt[c].moduleHead), ctx[c].targetVersion)

(* context c is of an updateSubmodule call for a submodule that exists, is
   clean, and whose target tag resolves *)
CleanRequest(c) ==
    /\ entry[c] = "updateSubmodule"
    /\ existsSync(ctx[c].submodule)
    /\ ~attempt[c].dirty
    /\ TagExists(ctx[c].targetVersion)

PreValidationErrors ==
    {"does not exist", "has uncommitted changes",
     "target version does not exist", "requires approval"}

CriticalNotPassed(context) ==
    /\ context.validation # <<>>
    /\ context.validation[1].notPassed \cap CriticalKeys # {}

(* C1: whenever post-update validation finds that a critical gate did not
   pass, it raises, so that the update is aborted and rolled back. *)
C1_CriticalFailureAborts ==
    [][\A c \in Slots :
          (/\ ctx'[c].validation # ctx[c].validation
           /\ CriticalNotPassed(ctx'[c]))
          => error'[c] # "none"]_vars

(* C2: updateSubmodule for a patch update of an existing, clean submodule to
   a tag that resolves does not raise out of pre-validation; it raises only
   for what its later steps meet. *)
C2_PatchUpdateSucceeds ==
    \A c \in Slots :
        (/\ CleanRequest(c)
         /\ RequestedType(c) = "patch"
         /\ pc[c] = "raised")
        => error[c] \notin PreValidationErrors

(* C3: an updateSubmodule call for a minor or major update without approval
   ends raised and mutates nothing: it never reaches the snapshot step or a
   later one, it fetches nothing, checks nothing out, commits and resets
   nothing in the parent, and it neither creates a rollback point nor pushes
   or pops the rollback stack. *)
C3_UnapprovedMutatesNothing ==
    \A c \in Slots :
        (/\ entry[c] = "updateSubmodule"
         /\ existsSync(ctx[c].submodule)
         /\ RequestedType(c) \in {"minor", "major"}
         /\ ~attempt[c].approved)
        => /\ pc[c] \in {"preValidate", "handleFailure", "raised"}
           /\ effects[c] = {}
           /\ ctx[c].rollbackPoint = <<>>

(* the request v1.2.3 -> v2.0.0 without approval has ended *)
C3_Witness ==
    \E c \in Slots :
        /\ entry[c] = "updateSubmodule"
        /\ ctx[c].submodule = "dashboard"
        /\ ctx[c].targetVersion = S_v2_0_0
        /\ RequestedType(c) = "major"
        /\ ~attempt[c].approved
        /\ pc[c] = "raised"

(* C4: an approved updateSubmodule call for a minor or major update of an
   existing, clean submodule to a tag that resolves does not fail in
   pre-validation: it goes on to the snapshot step. *)
C4_ApprovedPassesPreValidation ==
    \A c \in Slots :
        (/\ CleanRequest(c)
         /\ RequestedType(c) \in {"minor", "major"}
         /\ attempt[c].approved
         /\ pc[c] # "preValidate")
        => /\ error[c] \notin PreValidationErrors
           /\ ContextApproved(ctx[c])

(* C10: a second rollbackUpdate on a context after one that succeeded on the
   same rollback point leaves the submodule's HEAD, the parent's log and the
   rollback stack as they were, and returns. *)
C10_SecondRestoreIsNoOp ==
    [][\A c \in Slots :
          (restored[c] = 1 /\ restored'[c] = 2)
          => /\ subHead' = subHead
             /\ parentLog' = parentLog
             /\ rollbackStack' = rollbackStack]_vars

(* the step is the method `step` run on context c *)
Acted(c, step) == calls' # calls /\ calls'.last = <<c, step>>

(* the step is a rollbackUpdate on context c that got to its end *)
Restores(c) ==
    /\ Acted(c, "rollback") \/ Acted(c, "handleFailure")
    /\ restored'[c] # restored[c] \/ (restored[c] = 2 /\ "pop" \in effects'[c])

SameRepositories ==
    /\ subHead' = subHead
    /\ parentLog' = parentLog

(* C11: createRollbackPoint changes neither the submodule's HEAD nor the
   parent's log and pushes one entry; a rollbackUpdate of the same context
   right after it leaves the submodule's HEAD and the parent's log as they
   were before the snapshot and the rollback stack with its content of
   before the snapshot. *)
C11_SnapshotRestoreRoundTrip ==
    [][\A c \in Slots :
          /\ (Acted(c, "snapshot") /\ error'[c] = "none")
             => SameRepositories /\ Pop(rollbackStack') = rollbackStack
          /\ (/\ calls.last = <<c, "snapshot">>
              /\ error[c] = "none"
              /\ Restores(c))
             => SameRepositories /\ rollbackStack' = Pop(rollbackStack)]_vars

(* C12: a rollbackUpdate that got to its end leaves the submodule at the
   snapshotted commit and the parent at the snapshotted commit, has undone
   one parent commit when the parent was not at the snapshotted commit and
   none when it was, and has popped one entry off the rollback stack. *)
C12_RestoreReachesSnapshot ==
    [][\A c \in Slots :
          Restores(c)
          => LET point == ctx[c].rollbackPoint[1]
                 advanced == ParentHead(World).hash # point.parentCommit
             IN  /\ subHead'[ctx[c].submodule] = point.submoduleCommit
                 /\ parentLog'[Len(parentLog')].hash = point.parentCommit
                 /\ Len(parentLog') = Len(parentLog) - (IF advanced THEN 1 ELSE 0)
                 /\ Len(rollbackStack') = Len(rollbackStack) - 1]_vars

(* C13: rollbackUpdate on a context without rollback point throws
   'No rollback point available' and changes nothing: no checkout, no reset
   of the parent, no pop of the rollback stack. *)
C13_RestoreWithoutPointFails ==
    [][\A c \in Slots :
          (/\ ctx[c].rollbackPoint = <<>>
           /\ Acted(c, "rollback") \/ Acted(c, "handleFailure"))
          => /\ SameRepositories
             /\ rollbackStack' = rollbackStack
             /\ ctx'[c] = ctx[c]
             /\ effects'[c] \cap {"checkout", "reset", "pop"} = {}
             /\ Acted(c, "rollback") => error'[c] = "No rollback point available"]_vars

(* a caller's rollbackUpdate on a context without rollback point has thrown *)
C13_Witness ==
    \E c \in Slots :
        /\ calls.last = <<c, "rollback">>
        /\ ctx[c].rollbackPoint = <<>>
        /\ error[c] = "No rollback point available"

(* C14: in an updateSubmodule call the rollback point is created at most
   once, and the call has fetched, checked out or committed nothing before
   its rollback point is recorded and pushed. *)
C14_SnapshotOnceBeforeMutation ==
    [][\A c \in Slots :
          entry'[c] = "updateSubmodule"
          => /\ effects'[c] \cap {"fetch", "checkout", "commit"} # {}
                => "push" \in effects'[c] /\ ctx'[c].rollbackPoint # <<>>
             /\ Acted(c, "snapshot")
                => "push" \notin effects[c] /\ ctx[c].rollbackPoint = <<>>]_vars

(* an updateSubmodule call for the patch update v1.2.3 -> v1.2.4 of the clean
   submodule has run to its end *)
C14_Witness ==
    \E c \in Slots :
        /\ CleanRequest(c)
        /\ ctx[c].targetVersion = S_v1_2_4
        /\ pc[c] \in {"returned", "raised"}
        /\ calls.last = <<c, "handleFailure">>

(* C15: an updateSubmodule call that fails in pre-validation ends without
   entering the rollback: nothing is logged about a rollback, a rollback
   failure or a manual intervention, and the call has changed nothing. *)
C15_EarlyFailureSkipsRollback ==
    \A c \in Slots :
        (/\ entry[c] = "updateSubmodule"
         /\ pc[c] = "raised"
         /\ error[c] \in PreValidationErrors)
        => /\ logged[c] = {}
           /\ effects[c] = {}

RollbackErrors ==
    {"No rollback point available", "Command failed: git checkout",
     "Command failed: git reset"}

(* C16: what updateSubmodule throws tells the outcomes apart: when the
   rollback of the catch block failed, the error the caller gets is that of
   the rollback, not only the error the rollback was started for. *)
C16_RollbackFailureSurfaced ==
    \A c \in Slots :
        (/\ entry[c] = "updateSubmodule"
         /\ pc[c] = "raised"
         /\ "Rollback failed" \in logged[c])
        => error[c] \in RollbackErrors

(* C17: when the checkout of performUpdate leaves the submodule at a commit
   that is not the context's targetCommit, performUpdate throws; an
   updateSubmodule call goes to its catch block and runs neither
   postUpdateValidation nor updateParentRepository afterwards; and the
   rollback that follows the failed performUpdate puts the submodule back at
   the commit it had when the update was requested. *)
C17_MismatchFailsHard ==
    [][\A c \in Slots :
          LET m == ctx[c].submodule
              failed == error[c] = "Checkout verification failed"
          IN  /\ (/\ Acted(c, "apply")
                  /\ "checkout" \in effects'[c]
                  /\ subHead'[m] # ctx[c].targetCommit)
                 => /\ error'[c] = "Checkout verification failed"
                    /\ entry[c] = "updateSubmodule" => pc'[c] = "handleFailure"
              /\ (entry[c] = "updateSubmodule" /\ failed)
                 => ~Acted(c, "postValidate") /\ ~Acted(c, "commit")
              /\ (/\ failed
                  /\ entry[c] = "updateSubmodule" \/ calls.last = <<c, "apply">>
                  /\ Restores(c))
                 => subHead'[m] = attempt[c].moduleHead]_vars

(* performUpdate has failed its checkout verification on a context that
   holds a rollback point *)
C17_Witness ==
    \E c \in Slots :
        /\ calls.last = <<c, "apply">>
        /\ error[c] = "Checkout verification failed"
        /\ "checkout" \in effects[c]
        /\ ctx[c].rollbackPoint # <<>>
        /\ subHead[ctx[c].submodule] # ctx[c].targetCommit
        /\ subHead[ctx[c].submodule] # attempt[c].moduleHead

(* C18: postUpdateValidation validates the service contract only when the
   strategy of the context's update type has requiresCompatibilityTest, which
   is the major strategy alone, and for a major update it does so whenever the
   quality gates reported no critical issue; when the contract results hold a
   breaking change it throws 'Breaking changes detected', and an
   updateSubmodule call then goes to its catch block and never to
   updateParentRepository; for a patch or minor update postUpdateValidation
   never throws 'Breaking changes detected'. *)
C18_CompatibilityCheckOnMajorOnly ==
    [][\A c \in Slots :
          /\ (Acted(c, "postValidate") /\ ctx[c].updateType \in DOMAIN updateStrategies)
             => LET t == ctx[c].updateType
                    v == ctx'[c].validation[1]
                IN  /\ v.contracts # <<>>
                       => /\ RequiresCompatibilityTest(updateStrategies[t])
                          /\ t = "major"
                    /\ (t = "major" /\ Len(v.criticalIssues) = 0)
                       => v.contracts # <<>>
                    /\ (v.contracts # <<>> /\ v.contracts[1] > 0)
                       => /\ error'[c] = "Breaking changes detected"
                          /\ entry[c] = "updateSubmodule"
                                => pc'[c] = "handleFailure"
                    /\ t \in {"patch", "minor"}
                       => error'[c] # "Breaking changes detected"
          /\ (entry[c] = "updateSubmodule" /\ error[c] = "Breaking changes detected")
             => ~Acted(c, "commit")]_vars

(* postUpdateValidation of a major update has found a breaking change *)
C18_Witness ==
    \E c \in Slots :
        /\ calls.last = <<c, "postValidate">>
        /\ ctx[c].updateType = "major"
        /\ ctx[c].validation # <<>>
        /\ ctx[c].validation[1].contracts = <<1>>
        /\ error[c] = "Breaking changes detected"

----------------------------------------------------------------------------
(* Claims about the batch (SpecBatch) *)

(* the update type of a request, as determineUpdateType finds it for the
   submodule as it stands, and the rank of its strategy's risk level *)
RequestRisk(update) ==
    LET out == IF existsSync(update.submodule)
               THEN DescribeOutAt(subHead[update.submodule]) ELSE Null
    IN  riskOrder[updateStrategies[determineUpdateType(out, update.targetVersion)].riskLevel]

(* s is `updates` in ascending order of risk, requests of equal risk in
   their original order *)
RiskSorted(s, updates) ==
    /\ Len(s) = Len(updates)
    /\ \E perm \in [1..Len(updates) -> 1..Len(updates)] :
          /\ \A i, j \in 1..Len(updates) : i # j => perm[i] # perm[j]
          /\ \A i \in 1..Len(updates) : s[i] = updates[perm[i]]
          /\ \A i, j \in 1..Len(updates) :
                i < j => \/ RequestRisk(updates[perm[i]]) < RequestRisk(updates[perm[j]])
                         \/ /\ RequestRisk(updates[perm[i]]) = RequestRisk(updates[perm[j]])
                            /\ perm[i] < perm[j]

(* C19: a batchUpdate that has been called processes the updates in
   ascending order of the risk of their update types, updates of equal risk
   in the order they were passed in. *)
C19_BatchInRiskOrder ==
    batch.pc # "idle" => RiskSorted(batch.sortedUpdates, batch.updates)

(* C20: batchUpdate does not raise, whatever the length of the list. *)
C20_BatchNeverRaises ==
    batch.pc # "raised"

(* batchUpdate has returned or raised *)
BatchEnded == batch.pc \in {"returned", "raised"}

(* how many entries of seq are for the request q *)
CountIn(seq, q) ==
    Cardinality({i \in 1..Len(seq) : /\ seq[i].submodule = q.submodule
                                     /\ seq[i].targetVersion = q.targetVersion})

(* C21: when batchUpdate has ended, every request passed to it is in exactly
   one of results.successful, results.failed and results.skipped. *)
C21_BatchAccountsForAll ==
    BatchEnded =>
        \A q \in BatchRequests :
            CountIn(batch.updates, q) = CountIn(batch.results.successful, q)
                                        + CountIn(batch.results.failed, q)
                                        + CountIn(batch.results.skipped, q)

(* C22: when batchUpdate has ended, without stopOnError every request was
   attempted (it is in successful or failed); with stopOnError at most one
   update failed and it was the last one attempted. *)
C22_StopOrContinue ==
    BatchEnded =>
        LET r == batch.results
        IN  /\ ~batch.stopOnError
               => Len(r.successful) + Len(r.failed) = Len(batch.updates)
            /\ (batch.stopOnError /\ Len(r.failed) > 0)
               => /\ Len(r.failed) = 1
                  /\ CountIn(<<batch.sortedUpdates[batch.next - 1]>>, r.failed[1]) = 1

----------------------------------------------------------------------------
(* Claims about overlapping updates and the strategy table (Spec) *)

(* the updateSubmodule call of slot c has started and not ended *)
Underway(c) ==
    /\ entry[c] = "updateSubmodule"
    /\ pc[c] \in {"preValidate", "snapshot", "apply", "postValidate", "commit",
                  "handleFailure"}

(* C25: the steps of an updateSubmodule call come in the order of the try
   block, pre-validation first and each step followed by the next one or by
   the handling of its failure, and while a call is underway no step of
   another updateSubmodule call changes a submodule, the parent repository
   or the rollback stack, however the calls overlap. *)
C25_StepsInOrderNoForeignMutation ==
    [][\A c \in Slots :
          /\ Acted(c, "updateSubmodule") => pc'[c] = "preValidate"
          /\ \A step \in {"preValidate", "snapshot", "apply", "postValidate", "commit"} :
                (entry[c] = "updateSubmodule" /\ Acted(c, step))
                => /\ pc[c] = step
                   /\ pc'[c] = IF error'[c] = "none" THEN NextStep(step)
                                ELSE "handleFailure"
          /\ (entry[c] = "updateSubmodule" /\ Acted(c, "handleFailure"))
             => pc[c] = "handleFailure" /\ pc'[c] = "raised"
          /\ \A d \in Slots \ {c} :
                (/\ Underway(c)
                 /\ entry[d] = "updateSubmodule"
                 /\ calls' # calls
                 /\ calls'.last[1] = d)
                => SameRepositories /\ rollbackStack' = rollbackStack]_vars

(* a step of one updateSubmodule call has run while another call was
   underway *)
C25_Witness ==
    \E c \in Slots : \E d \in Slots \ {c} :
        /\ Underway(c)
        /\ pc[c] = "handleFailure"
        /\ entry[d] = "updateSubmodule"
        /\ calls.last = <<d, "preValidate">>
        /\ existsSync(ctx[c].submodule) /\ existsSync(ctx[d].submodule)

(* C26: in every state the updater reaches, every context's update type is
   null or a key of this.updateStrategies, and this.updateStrategies has the
   three strategies patch, minor and major and no other: major requires
   approval and the compatibility test and has risk level high, minor
   requires approval but not the compatibility test and has risk level
   medium, patch requires neither and has risk level low. *)
C26_StrategyTable ==
    /\ \A c \in Slots : ctx[c].updateType \in DOMAIN updateStrategies \cup {"null"}
    /\ DOMAIN updateStrategies = {"patch", "minor", "major"}
    /\ updateStrategies["major"].requiresApproval
    /\ RequiresCompatibilityTest(updateStrategies["major"])
    /\ updateStrategies["major"].riskLevel = "high"
    /\ updateStrategies["minor"].requiresApproval
    /\ ~RequiresCompatibilityTest(updateStrategies["minor"])
    /\ updateStrategies["minor"].riskLevel = "medium"
    /\ ~updateStrategies["patch"].requiresApproval
    /\ ~RequiresCompatibilityTest(updateStrategies["patch"])
    /\ updateStrategies["patch"].riskLevel = "low"

(* postUpdateValidation has read the strategy of a minor update and returned *)
C26_Witness ==
    \E c \in Slots :
        /\ calls.last = <<c, "postValidate">>
        /\ ctx[c].updateType = "minor"
        /\ ctx[c].validation # <<>>
        /\ ctx[c].validation[1].contracts = <<>>
        /\ error[c] = "none"

----------------------------------------------------------------------------
(* Claims about the gate evaluators (SpecEvaluate) *)

(* the evaluator of the gate has run to the end of its try block *)
Evaluated(gate) ==
    /\ gateRun.gate = gate
    /\ gateRun.result # <<>>
    /\ ~gateRun.facts.threw

Bonus(b, n) == IF b THEN n ELSE 0

(* C27: the score of the Security gate is the number of true checks among
   its seven times 100/7, less the smaller of 5 times the vulnerability count
   and 30, and not below 0; the gate passes exactly when the score is at
   least 90, which is exactly when all seven checks are true and no
   vulnerability was counted.  (Scores are in sevenths of a point.) *)
C27_SecurityScore ==
    Evaluated("security") =>
        LET f == gateRun.facts
            r == gateRun.result[1]
            found == {k \in {"hasSecurityPolicy", "secureGitignore", "hasEnvExample",
                             "noHardcodedSecrets", "httpsEnforced", "hasAuth"} : f[k]}
            n == Cardinality(found) + Bonus(f.vulnerabilityCount = 0, 1)
            penalty == IF 5 * f.vulnerabilityCount < 30
                       THEN 5 * f.vulnerabilityCount ELSE 30
            raw == 100 * n - 7 * penalty
        IN  /\ r.score = IF raw < 0 THEN 0 ELSE raw
            /\ r.passed <=> r.score >= 7 * 90
            /\ r.passed <=> (Cardinality(found) = 6 /\ f.vulnerabilityCount = 0)

(* the Security gate has been scored with the vulnerability penalty at its
   cap and the score above 0 *)
C27_Witness ==
    /\ Evaluated("security")
    /\ 5 * gateRun.facts.vulnerabilityCount > 30
    /\ gateRun.result[1].score > 0
    /\ ~gateRun.result[1].passed

(* C28: the score of the Contract gate is 30 for an existing contract, plus
   25 for a syntactically valid one, plus the smaller of the compatibility
   score and 25, plus 10 for a contract with an explicit version, plus 10 for
   no breaking change; the gate passes exactly when the score is at least
   90. *)
C28_ContractScore ==
    Evaluated("contract") =>
        LET c == validateServiceContract(gateRun.facts)
            r == gateRun.result[1]
            expected == Bonus(c.hasContract, 30)
                      + Bonus(c.isValid, 25)
                      + (IF c.compatibilityScore < 25 THEN c.compatibilityScore ELSE 25)
                      + Bonus(c.version = "found", 10)
                      + Bonus(c.breakingChanges = 0, 10)
        IN  /\ r.score = 7 * expected
            /\ r.passed <=> expected >= 90

(* C29: the score of the Stability gate is 20 for a stable tag, 15 for
   tests, the smaller of the test coverage and 20, 15 for a passing build, 10
   for error handling, 10 for the rollback capability and 10 for a health
   endpoint, added up; it is at most 100, and the gate passes exactly when it
   is at least 90. *)
C29_StabilityScore ==
    Evaluated("stability") =>
        LET f == gateRun.facts
            r == gateRun.result[1]
            expected == Bonus(f.hasStableTag, 20) + Bonus(f.hasTests, 15)
                      + (IF f.testCoverage < 20 THEN f.testCoverage ELSE 20)
                      + Bonus(f.buildPasses, 15) + Bonus(f.hasErrorHandling, 10)
                      + Bonus(f.canRollback, 10) + Bonus(f.hasHealthEndpoint, 10)
        IN  /\ r.score = 7 * expected
            /\ r.score <= 7 * 100
            /\ r.passed <=> expected >= 90

(* the Stability gate has been scored at 100 with a test coverage above 20 *)
C29_Witness ==
    /\ Evaluated("stability")
    /\ gateRun.facts.testCoverage > 20
    /\ gateRun.result[1].score = 7 * 100
    /\ gateRun.result[1].passed

(* the gate results of a service whose critical gates all passed with the
   score `points` and whose Performance gate is `performance` *)
WithCriticalGatesAt(points, performance) ==
    [k \in GateKeys |-> IF k = "performance" THEN performance
                        ELSE [score |-> 7 * points, passed |-> TRUE, issues |-> <<>>]]

(* C30: the score of the Performance gate is 85, less 15 for a bundle of
   more than 5,000,000 bytes, less 10 for a build of more than 300 seconds,
   less 5 for more than 50 dependencies, and not below 0; the gate passes
   exactly when the score is at least 70; and a service whose other gates
   all passed can deploy although its Performance gate failed. *)
C30_PerformanceScore ==
    Evaluated("performance") =>
        LET f == gateRun.facts
            r == gateRun.result[1]
            raw == 85 - Bonus(f.bundleSize > 5000000, 15)
                      - Bonus(f.buildTime > 300, 10)
                      - Bonus(f.dependencyCount > 50, 5)
            expected == IF raw < 0 THEN 0 ELSE raw
        IN  /\ r.score = 7 * expected
            /\ r.passed <=> expected >= 70
            /\ ~r.passed =>
                  \A points \in {90, 100} :
                      LET results == WithCriticalGatesAt(points, r)
                      IN  canServiceDeploy(gates,
                              [overallScore |-> calculateOverallScore(gates, results),
                               gateResults |-> results])

(* the Performance gate has failed on a large bundle, a slow build and many
   dependencies *)
C30_Witness ==
    /\ Evaluated("performance")
    /\ gateRun.facts.bundleSize > 5000000
    /\ gateRun.facts.buildTime > 300
    /\ gateRun.facts.dependencyCount > 50
    /\ gateRun.result[1].score = 7 * 55
    /\ ~gateRun.result[1].passed

----------------------------------------------------------------------------
(* Claims about the issues and the verdicts of the gate evaluators
   (SpecEvaluate) *)

(* C31: the gate object a gate evaluator returns has issues exactly when the
   gate did not pass: a gate that passed lists no issue and a gate that did
   not pass lists what it did not meet. *)
C31_IssuesIffFailed ==
    gateRun.result # <<>> =>
        (Len(gateRun.result[1].issues) > 0 <=> ~gateRun.result[1].passed)

(* C37: the Contract gate passes only when the contract validator reported
   no breaking change. *)
C37_BreakingChangesFailContract ==
    (gateRun.gate = "contract" /\ gateRun.result # <<>>
        /\ gateRun.result[1].passed) =>
            validateServiceContract(gateRun.facts).breakingChanges = 0

(* the issue the catch block of each evaluator pushes *)
EvaluationFailedIssue ==
    [security    |-> "Security evaluation failed",
     stability   |-> "Stability evaluation failed",
     performance |-> "Performance evaluation failed",
     contract    |-> "Contract evaluation failed",
     deployment  |-> "Deployment evaluation failed"]

(* C38: a gate one of whose checks threw is returned as not passed and with
   the evaluation-failed issue of its evaluator, for each of the five
   evaluators. *)
C38_ThrownGateNeverPasses ==
    (gateRun.result # <<>> /\ gateRun.facts.threw) =>
        /\ ~gateRun.result[1].passed
        /\ \E i \in 1..Len(gateRun.result[1].issues) :
               gateRun.result[1].issues[i] = EvaluationFailedIssue[gateRun.gate]

----------------------------------------------------------------------------
(* Claims about missing gate results (SpecGates) *)

(* C39: canDeploy is false whenever a critical gate has no result, also when
   the overall score over the gates that have one is 80 or more. *)
C39_MissingCriticalGateBlocks ==
    (evalPc = "done" /\ ~(CriticalKeys \subseteq Present)) => ~evaluation.canDeploy

(* the Deployment gate has no result, the other four passed with 100: the
   overall score is 100 and the service cannot deploy *)
C39_Witness ==
    /\ evalPc = "done"
    /\ Present = GateKeys \ {"deployment"}
    /\ \A k \in Present :
          evaluation.gateResults[k] = [score |-> Points(100), passed |-> TRUE]
    /\ evaluation.overallScore.num >= 80 * evaluation.overallScore.den
    /\ ~evaluation.canDeploy

----------------------------------------------------------------------------
(* Claims about the quality report (SpecReport) *)

(* the issues of the gates of `keys`, in the order of the gate results *)
RECURSIVE IssuesOfFirst(_, _)
IssuesOfFirst(n, keys) ==
    IF n = 0 THEN <<>>
    ELSE IssuesOfFirst(n - 1, keys)
           \o (IF GateOrder[n] \in keys
               THEN evaluation.gateResults[GateOrder[n]].issues ELSE <<>>)

FailedCritical == {k \in CriticalKeys : ~evaluation.gateResults[k].passed}

(* C32: in a quality report criticalFailures holds exactly the issues of the
   critical gates that did not pass, and warnings exactly the issues of all
   the other gates (the gate that is not critical, and critical gates that
   passed): every issue is in one of the two lists and in one only. *)
C32_IssuesPartitioned ==
    evalPc = "collected" =>
        /\ evaluation.criticalFailures = IssuesOfFirst(5, FailedCritical)
        /\ evaluation.warnings = IssuesOfFirst(5, GateKeys \ FailedCritical)
        /\ Len(evaluation.criticalFailures) + Len(evaluation.warnings)
             = Len(IssuesOfFirst(5, GateKeys))

(* a report with an issue of a failed critical gate and issues of a failed
   Performance gate *)
C32_Witness ==
    /\ evalPc = "collected"
    /\ evaluation.criticalFailures = <<"Security evaluation failed">>
    /\ ~evaluation.gateResults["performance"].passed
    /\ Len(evaluation.warnings) = 3

(* C40: for the gate results the five evaluators give, the overall score is
   at least 80 whenever the four critical gates passed, so canDeploy is true
   exactly when the four critical gates passed: the threshold on the overall
   score never turns a deployment down. *)
C40_ScoreNeverVetoes ==
    evalPc \in {"done", "collected"} =>
        /\ (\A k \in CriticalKeys : evaluation.gateResults[k].passed) =>
              evaluation.overallScore.num >= 80 * evaluation.overallScore.den
        /\ evaluation.canDeploy <=>
              \A k \in CriticalKeys : evaluation.gateResults[k].passed

(* the four critical gates passed, two of them with 90, the Performance gate
   failed with 55, and the service can deploy *)
C40_Witness ==
    /\ evalPc = "done"
    /\ evaluation.gateResults["stability"].score = 7 * 90
    /\ evaluation.gateResults["contract"].score = 7 * 90
    /\ evaluation.gateResults["performance"].score = 7 * 55
    /\ \A k \in CriticalKeys : evaluation.gateResults[k].passed
    /\ evaluation.canDeploy

----------------------------------------------------------------------------
(* Claims about the parent repository and the rollback stack (Spec) *)

(* C33: the parent repository's HEAD is moved only by updateParentRepository
   when it returns and by rollbackUpdate; pre-validation, the snapshot, the
   apply step and post-validation leave the parent repository as it is, and
   so does the start of a call. *)
C33_ParentMovedByCommitAndRollbackOnly ==
    [][parentLog' # parentLog =>
          \E c \in Slots :
              \/ Acted(c, "commit") /\ error'[c] = "none"
              \/ Acted(c, "rollback")
              \/ Acted(c, "handleFailure")]_vars

(* a commit has been made in the parent repository after a snapshot, a
   fetch and checkout and a post-validation *)
C33_Witness ==
    \E c \in Slots :
        /\ calls.last = <<c, "commit">>
        /\ error[c] = "none"
        /\ Len(parentLog) = 3
        /\ ctx[c].rollbackPoint # <<>>
        /\ ctx[c].validation # <<>>
        /\ subHead[ctx[c].submodule] = ctx[c].targetCommit

(* the attempt of context c is over: the updateSubmodule call has returned
   or raised; or, for a context whose holder runs the steps itself, the
   snapshot, the apply step and the post-validation are done and
   updateParentRepository has just returned *)
AttemptOver(c) ==
    \/ entry[c] = "updateSubmodule" /\ pc[c] \in {"returned", "raised"}
    \/ /\ entry[c] = "direct"
       /\ calls.last = <<c, "commit">>
       /\ error[c] = "none"
       /\ ctx[c].rollbackPoint # <<>>
       /\ ctx[c].validation # <<>>
       /\ subHead[ctx[c].submodule] = ctx[c].targetCommit

(* C34: once every update attempt made so far is over, succeeded or not, the
   rollback stack holds no rollback point: each attempt has removed what it
   pushed, and the stack does not grow with the successful updates. *)
C34_StackEmptyBetweenAttempts ==
    (\A c \in Slots : pc[c] = "idle" \/ AttemptOver(c)) => rollbackStack = <<>>

(* the step is a rollback of context c: rollbackUpdate called by the holder
   of the context or by the catch block of updateSubmodule *)
RollsBack(c) == Acted(c, "rollback") \/ Acted(c, "handleFailure")

(* how many entries of the stack are the rollback point p *)
TimesOnStack(stack, p) == Cardinality({i \in 1..Len(stack) : stack[i] = p})

(* context d holds a rollback point of its own that is on the stack and is
   not the one context c holds *)
HoldsOtherPoint(d, c) ==
    /\ ctx[d].rollbackPoint # <<>>
    /\ ctx[d].rollbackPoint # ctx[c].rollbackPoint
    /\ TimesOnStack(rollbackStack, ctx[d].rollbackPoint[1]) > 0

(* C35: when the attempts of two contexts overlap, the rollback of one does
   not take the other's rollback point off the rollback stack, and does not
   undo the commit the other has just made in the parent repository. *)
C35_RollbackSparesTheOther ==
    [][\A c \in Slots : \A d \in Slots \ {c} :
          (RollsBack(c) /\ pc[d] # "idle") =>
              /\ HoldsOtherPoint(d, c) =>
                    TimesOnStack(rollbackStack', ctx[d].rollbackPoint[1])
                      = TimesOnStack(rollbackStack, ctx[d].rollbackPoint[1])
              /\ (calls.last = <<d, "commit">> /\ error[d] = "none")
                 => parentLog' = parentLog]_vars

============================================================================
